---- MODULE Spec2Model ----
(***************************************************************************)
(* Stack/type analysis of NWScript bytecode (src/src/unherf.cpp, namespace *)
(* NWScript): the abstract interpretation that walks subroutines, blocks   *)
(* and instructions, keeps an abstract stack of variable references and    *)
(* infers variable types, subroutine parameters/returns and the globals.   *)
(*                                                                         *)
(* The recursion of the C++ code (analyzeSubRoutineStack ->                *)
(* analyzeBlockStack -> analyzeInstructionStack -> analyzeStackJSR -> ...) *)
(* is unfolded into an explicit call stack `frames`.  The disassembled     *)
(* program is an input: because every block is walked at most once, the    *)
(* instructions and the successor edges of a block are drawn when the      *)
(* walker first reaches them and are then kept in `code` and `children`.   *)
(***************************************************************************)
EXTENDS Integers, Sequences, FiniteSets, TLC

VARIABLES
    variables,   \* VariableSpace: sequence of Variable, ids are 0-based
    ctx,         \* AnalyzeStackContext of the running analysis
    globals,     \* the Stack the driver passes as `globals`
    subState,    \* SubRoutine::stackAnalyzeState, per subroutine
    blockState,  \* Block::stackAnalyzeState, per block
    params,      \* SubRoutine::params, per subroutine
    returns,     \* SubRoutine::returns, per subroutine
    code,        \* Block::instructions seen so far (with Instruction::stack)
    closed,      \* blocks whose instruction list and children are complete
    children,    \* Block::children / childrenTypes, per closed block
    frames,      \* the C++ call stack: saved contexts of the callers
    child,       \* loop index i of the children loop in analyzeBlockStack
    pc,          \* where the analysis is
    err,         \* the Common::Exception thrown, if any
    family,      \* which family of input programs is being analysed
    calls,       \* number of top-level calls the driver has made
    walks,       \* history: how often each block's instruction loop started
    dupLog,      \* history: source, duplicate and the source's type then,
                 \* recorded by duplicateVariable
    earlier      \* history: what an earlier run on the same input produced

vars == <<variables, ctx, globals, subState, blockState, params, returns, code,
          closed, children, frames, child, pc, err, family, calls, walks,
          dupLog, earlier>>

----------------------------------------------------------------------------
(* Bounds of the model and constants of the program. *)

kDummyStackFrameSize == 32

\* most instructions the disassembled program may hold, over all blocks,
\* per family of input programs
MaxInstrCalls == 6
MaxInstrTypes == 5
MaxInstrRecursion == 4
MaxInstrBlocks == 2
MaxInstrGlobals == 6
MaxInstrInert == 4
MaxInstrAction == 5
MaxInstrDestruct == 3
MaxInstrRerun == 4
MaxInstrMalformed == 2
MaxInstrUnderrun == 2
MaxInstrOperands == 3
MaxInstrBranches == 4
MaxInstrReconcile == 6
MaxInstrCopies == 4
MaxInstrFixup == 5
MaxInstrBounds == 3
MaxInstrReturns == 6
MaxInstrDriver == 5

\* most top-level calls (analyzeGlobals / analyzeSubRoutineStack) of the driver
MaxCalls == 2

\* a null Variable pointer (SubRoutine::returns is resized with 0)
NoVariable == -1

Subs   == {1, 2, 3}
Blocks == {1, 2, 3, 4, 5}

\* Block::subRoutine and SubRoutine::blocks.front()
SubOf(b)   == CASE b \in {1, 2, 3} -> 1 [] b = 4 -> 2 [] OTHER -> 3
EntryOf(s) == CASE s = 1 -> 1 [] s = 2 -> 4 [] OTHER -> 5

\* addresses, as the disassembler assigns them
BlockAddress(b)    == 16 * b
InstrAddress(b, i) == 16 * b + i
SubAddress(s)      == BlockAddress(EntryOf(s))

----------------------------------------------------------------------------
(* size_t arithmetic.  subStack is a size_t: it is kept as an integer k    *)
(* that stands for k mod 2^w, so a negative k is a wrapped, huge value.    *)
(* Sums and differences are exact modulo 2^w; comparisons are unsigned.    *)

ULess(a, b) == IF (a >= 0) = (b >= 0) THEN a < b ELSE a >= 0
ULeq(a, b)  == a = b \/ ULess(a, b)

Min(a, b) == IF a < b THEN a ELSE b

----------------------------------------------------------------------------
(* Instructions of the input program. *)

Ins(op, type, args, branch) ==
    [opcode |-> op, type |-> type, args |-> args, branch |-> branch]

Op(op)            == Ins(op, "kInstTypeNone", <<>>, 0)
OpT(op, type)     == Ins(op, type, <<>>, 0)
OpA(op, args)     == Ins(op, "kInstTypeNone", args, 0)
JSR(s)            == Ins("JSR", "kInstTypeNone", <<>>, EntryOf(s))

instructionTypeToVariableType(t) ==
    CASE t \in {"kInstTypeInt", "kInstTypeIntInt"}          -> "Int"
      [] t \in {"kInstTypeFloat", "kInstTypeFloatFloat",
                "kInstTypeIntFloat", "kInstTypeFloatInt"}   -> "Float"
      [] t \in {"kInstTypeString", "kInstTypeStringString"} -> "String"
      [] t \in {"kInstTypeObject", "kInstTypeObjectObject"} -> "Object"
      [] t \in {"kInstTypeVector", "kInstTypeVectorVector",
                "kInstTypeVectorFloat", "kInstTypeFloatVector"} -> "Vector"
      [] OTHER -> "Void"

----------------------------------------------------------------------------
(* The context the handlers work on: the fields of AnalyzeStackContext     *)
(* together with the objects its pointers refer to (variables, globals,    *)
(* the subroutines' params and returns) and the outcome of the handler:    *)
(* "ok", a thrown exception's message, or "ub" for undefined behaviour.    *)

CtxFields == {"mode", "sub", "block", "instruction", "stack", "hasGlobals",
              "subStack", "subRETN", "returnStack"}

NewContext(m, s, g) ==
    [mode |-> m, sub |-> s, block |-> 0, instruction |-> 0, stack |-> <<>>,
     hasGlobals |-> g, subStack |-> 0, subRETN |-> FALSE, returnStack |-> <<>>]

Cx(c) == c @@ [variables |-> variables, globals |-> globals, params |-> params,
               returns |-> returns, dupLog |-> dupLog, status |-> "ok"]

CtxOf(cx) == [f \in CtxFields |-> cx[f]]

Throw(cx, msg) == [cx EXCEPT !.status = msg]
Undefined(cx)  == [cx EXCEPT !.status = "ub"]

\* the Instruction the context points at (null outside the instruction loop)
InstructionOf(cx) ==
    IF cx.instruction = 0 THEN <<0, 0>> ELSE <<cx.block, cx.instruction>>

VarAt(cx, offset)  == cx.stack[offset + 1]
TypeOf(cx, id)     == cx.variables[id + 1].type
TypeAt(cx, offset) == TypeOf(cx, VarAt(cx, offset))

\* ids drawn from a counter that outlives the run
addVariableCounted(cx, type, use) ==
    [cx EXCEPT !.variables = Append(@,
        [id |-> Len(cx.variables) + (IF earlier.done THEN 1 ELSE 0),
         type |-> type, use |-> use,
         creator |-> InstructionOf(cx), readers |-> <<>>, writers |-> <<>>,
         duplicates |-> <<>>])]

addVariable(cx, type, use) ==
    [cx EXCEPT !.variables = Append(@,
        [id |-> Len(cx.variables), type |-> type, use |-> use,
         creator |-> InstructionOf(cx), readers |-> <<>>, writers |-> <<>>,
         duplicates |-> <<>>])]

readVariable(cx, offset) ==
    [cx EXCEPT !.variables[VarAt(cx, offset) + 1].readers =
                   Append(@, InstructionOf(cx))]

writeVariable(cx, offset) ==
    [cx EXCEPT !.variables[VarAt(cx, offset) + 1].writers =
                   Append(@, InstructionOf(cx))]

setVariableType(cx, offset, type) ==
    IF type # "Any"
      THEN [cx EXCEPT !.variables[VarAt(cx, offset) + 1].type = type]
      ELSE cx

writeVariableType(cx, offset, type) ==
    writeVariable(setVariableType(cx, offset, type), offset)

pushVariable(cx, type, use) ==
    LET a == addVariable(cx, type, use)
    IN  [a EXCEPT !.subStack = @ + 1,
                  !.stack = <<Len(cx.variables)>> \o @]

popVariable(cx, reading) ==
    IF cx.stack = <<>>
      THEN Undefined(cx)
      ELSE LET r == IF reading THEN readVariable(cx, 0) ELSE cx
           IN  [r EXCEPT !.subStack = @ - 1, !.stack = Tail(@)]

\* a copy that reads its source and pushes nothing
readWithoutDuplicate(cx, offset) == readVariable(cx, offset)

duplicateVariable(cx, offset) ==
    LET var1 == VarAt(cx, offset)
        var2 == Len(cx.variables)
        r    == readVariable(cx, offset)
        a    == addVariable(r, TypeOf(r, var1), "Unknown")
        d1   == a.variables[var1 + 1].duplicates
        d2   == a.variables[var2 + 1].duplicates
    IN  [a EXCEPT !.subStack = @ + 1,
                  !.stack = <<var2>> \o @,
                  !.variables[var1 + 1].duplicates = (d1 \o <<var2>>) \o d2,
                  !.variables[var2 + 1].duplicates = (d2 \o <<var1>>) \o d1,
                  !.dupLog = @ \cup {<<var1, var2, TypeOf(r, var1)>>}]

checkVariableType(cx, offset, type) ==
    TypeAt(cx, offset) = "Any" \/ TypeAt(cx, offset) = type

sameVariableType(cx, var1, var2) ==
    IF var1 = NoVariable \/ var2 = NoVariable
      THEN cx
      ELSE LET type == IF TypeOf(cx, var1) = "Any" THEN TypeOf(cx, var2)
                       ELSE TypeOf(cx, var1)
           IN  [cx EXCEPT !.variables[var1 + 1].type = type,
                          !.variables[var2 + 1].type = type]

----------------------------------------------------------------------------
(* fixupDuplicateTypes: one pass over the variable space. *)

\* the type of the first concrete duplicate, the search ending there
RECURSIVE FirstDuplicateType(_, _, _)
FirstDuplicateType(vs, type, ds) ==
    IF ds = <<>> THEN type
    ELSE IF vs[Head(ds) + 1].type # "Any" THEN vs[Head(ds) + 1].type
    ELSE FirstDuplicateType(vs, type, Tail(ds))

RECURSIVE DuplicatesType(_, _, _)
DuplicatesType(vs, type, ds) ==
    IF ds = <<>> THEN type
    ELSE DuplicatesType(vs,
             IF vs[Head(ds) + 1].type # "Any" THEN vs[Head(ds) + 1].type
             ELSE type,
             Tail(ds))

FixupVariable(vs, i) ==
    LET ds   == vs[i].duplicates
        type == DuplicatesType(vs, vs[i].type, ds)
        peer == {ds[k] + 1 : k \in DOMAIN ds}
    IN  IF ds = <<>> THEN vs   \* nothing to adopt, nothing to broadcast
        ELSE [j \in DOMAIN vs |->
                IF j = i THEN [vs[j] EXCEPT !.type = type, !.duplicates = <<>>]
                ELSE IF j \in peer THEN [vs[j] EXCEPT !.type = type]
                ELSE vs[j]]

RECURSIVE FixupFrom(_, _)
FixupFrom(vs, i) ==
    IF i > Len(vs) THEN vs ELSE FixupFrom(FixupVariable(vs, i), i + 1)

fixupDuplicateTypes(vs) ==
    IF \A i \in DOMAIN vs : vs[i].duplicates = <<>> THEN vs ELSE FixupFrom(vs, 1)

----------------------------------------------------------------------------
(* The opcode handlers, as functions from the context before the handler   *)
(* to the context after it.                                                *)

\* analyzeStackPush: RSADD, CONST
analyzeStackPush(cx, ins) ==
    pushVariable(cx, instructionTypeToVariableType(ins.type), "Local")

\* a MOVSP that pops without ever recording a parameter
RECURSIVE PopLoopWithoutParams(_, _)
PopLoopWithoutParams(cx, size) ==
    IF size = 0 \/ cx.status # "ok" THEN cx
    ELSE IF cx.stack = <<>> THEN Undefined(cx)
    ELSE PopLoopWithoutParams(popVariable(cx, FALSE), size - 1)

RECURSIVE PopLoop(_, _)
PopLoop(cx, size) ==
    IF size = 0 \/ cx.status # "ok" THEN cx
    ELSE IF cx.stack = <<>> THEN Undefined(cx)
    ELSE LET p == IF cx.subStack = 0
                    THEN [cx EXCEPT !.subStack = @ + 1,
                                    !.params[cx.sub] = Append(@, Head(cx.stack))]
                    ELSE cx
         IN  PopLoop(popVariable(p, FALSE), size - 1)

\* analyzeStackPop: MOVSP
analyzeStackPop(cx, ins) ==
    IF ins.args[1] > 0 \/ ins.args[1] % 4 # 0
      THEN Throw(cx, "analyzeStackPop(): Invalid argument")
      ELSE PopLoop(cx, (0 - ins.args[1]) \div 4)

\* a RETN that takes the return stack anew every time it is reached
RETNEveryTime(cx, ins) ==
    LET subParams == Min(Len(cx.params[cx.sub]), Len(cx.returns[cx.sub]))
    IN  [cx EXCEPT !.returns[cx.sub] = SubSeq(@, subParams + 1, Len(@)),
                   !.returnStack = cx.stack,
                   !.subRETN = TRUE]

\* analyzeStackRETN
analyzeStackRETN(cx, ins) ==
    IF cx.subRETN THEN cx
    ELSE LET subParams == Min(Len(cx.params[cx.sub]), Len(cx.returns[cx.sub]))
         IN  [cx EXCEPT !.returns[cx.sub] = SubSeq(@, subParams + 1, Len(@)),
                        !.returnStack = cx.stack,
                        !.subRETN = TRUE]

InvalidCopyArguments(offset, size) ==
    size < 0 \/ size % 4 # 0 \/ offset > -4 \/ offset % 4 # 0

StackIndex(offset) == ((0 - offset) \div 4) - 1

\* a copy loop that steps to the next entry itself after every copy
RECURSIVE DuplicateStepping(_, _, _)
DuplicateStepping(cx, offset, size) ==
    IF size = 0 \/ offset < 0 THEN cx
    ELSE DuplicateStepping(duplicateVariable(cx, offset), offset - 1, size - 1)

RECURSIVE DuplicateLoop(_, _, _)
DuplicateLoop(cx, offset, size) ==
    IF size = 0 THEN cx
    ELSE DuplicateLoop(duplicateVariable(cx, offset), offset, size - 1)

\* analyzeStackCPTOPSP
analyzeStackCPTOPSP(cx, ins) ==
    LET offset == ins.args[1]
        size   == ins.args[2]
    IN  IF InvalidCopyArguments(offset, size)
          THEN Throw(cx, "analyzeStackCPTOPSP(): Invalid arguments")
        ELSE IF StackIndex(offset) >= Len(cx.stack)
          THEN Throw(cx, "analyzeStackCPTOPSP(): Stack underrun")
        ELSE DuplicateLoop(cx, StackIndex(offset), size \div 4)

\* the return bookkeeping of analyzeStackCPDOWNSP (lines 732-751)
\* a return recorded at its stack index, not at its distance below the frame
RecordReturnAtStackIndex(cx, offset) ==
    IF ~cx.subRETN /\ ULeq(cx.subStack, offset)
      THEN LET underrun == offset + 1
               old      == cx.returns[cx.sub]
               grown    == IF Len(old) < underrun
                             THEN old \o [k \in 1..(underrun - Len(old)) |-> NoVariable]
                             ELSE old
           IN  [cx EXCEPT !.returns[cx.sub] =
                              [grown EXCEPT ![underrun] = VarAt(cx, offset)]]
      ELSE cx

RecordReturn(cx, offset) ==
    IF ~cx.subRETN /\ ULeq(cx.subStack, offset)
      THEN LET underrun == offset - cx.subStack + 1
               old      == cx.returns[cx.sub]
               grown    == IF Len(old) < underrun
                             THEN old \o [k \in 1..(underrun - Len(old)) |-> NoVariable]
                             ELSE old
           IN  [cx EXCEPT !.returns[cx.sub] =
                              [grown EXCEPT ![underrun] = VarAt(cx, offset)]]
      ELSE cx

RECURSIVE CopyDownLoop(_, _, _)
CopyDownLoop(cx, offset, size) ==
    IF size <= 0 THEN cx
    ELSE IF offset < 0 THEN Undefined(cx)
    ELSE LET pos  == size - 1
             r    == readVariable(cx, pos)
             any  == TypeAt(r, pos) = "Any"
             type == IF any THEN TypeAt(r, offset) ELSE TypeAt(r, pos)
             s    == IF any
                       THEN [r EXCEPT !.variables[VarAt(r, pos) + 1].type = type]
                       ELSE r
             w    == writeVariableType(s, offset, type)
         IN  CopyDownLoop(RecordReturn(w, offset), offset - 1, size - 1)

\* analyzeStackCPDOWNSP
analyzeStackCPDOWNSP(cx, ins) ==
    LET offset == ins.args[1]
        size   == ins.args[2]
    IN  IF InvalidCopyArguments(offset, size)
          THEN Throw(cx, "analyzeStackCPDOWNSP(): Invalid arguments")
        ELSE IF size \div 4 > Len(cx.stack) \/ StackIndex(offset) >= Len(cx.stack)
          THEN Throw(cx, "analyzeStackCPDOWNSP(): Stack underrun")
        ELSE CopyDownLoop(cx, StackIndex(offset), size \div 4)

\* analyzeStackUnArithm: NEG, COMP, NOT
analyzeStackUnArithm(cx, ins) ==
    LET type == instructionTypeToVariableType(ins.type)
    IN  IF Len(cx.stack) < 1
          THEN Throw(cx, "analyzeStackUnArithm(): Stack underrun")
        ELSE IF type = "Void"
          THEN Throw(cx, "analyzeStackUnArithm(): Invalid instruction type")
        ELSE IF ~checkVariableType(cx, 0, type)
          THEN Throw(cx, "analyzeStackUnArithm(): Invalid types")
        ELSE pushVariable(popVariable(setVariableType(cx, 0, type), TRUE),
                          type, "Local")

\* analyzeStackCond: JZ, JNZ
analyzeStackCond(cx, ins) ==
    IF Len(cx.stack) < 1
      THEN Throw(cx, "analyzeStackJump(): Stack underrun")
    ELSE IF ~checkVariableType(cx, 0, "Int")
      THEN Throw(cx, "analyzeStackCond(): Invalid types")
    ELSE popVariable(setVariableType(cx, 0, "Int"), TRUE)

\* popVariable() called n times in a row
RECURSIVE PopRead(_, _)
PopRead(cx, n) ==
    IF n = 0 \/ cx.status # "ok" THEN cx ELSE PopRead(popVariable(cx, TRUE), n - 1)

\* a handler that takes every operand type to be acceptable
AnyOperands(cx, types) == "ok"

\* checkVariableType(0, types[1]) || checkVariableType(1, types[2]) || ...,
\* evaluated left to right up to the first failing check: "mismatch" when
\* that check fails on an entry of the stack, "ub" when the evaluation gets
\* to an offset the stack does not have
CheckOperands(cx, types) ==
    LET bad == {k \in DOMAIN types :
                   \/ k > Len(cx.stack)
                   \/ ~checkVariableType(cx, k - 1, types[k])}
    IN  IF bad = {} THEN "ok"
        ELSE IF (CHOOSE k \in bad : \A j \in bad : k <= j) > Len(cx.stack)
          THEN "ub"
        ELSE "mismatch"

\* setVariableType(0, types[1]); setVariableType(1, types[2]); ...
RECURSIVE SetOperands(_, _, _)
SetOperands(cx, types, k) ==
    IF k > Len(types) THEN cx
    ELSE SetOperands(setVariableType(cx, k - 1, types[k]), types, k + 1)

\* for (i < n) { setVariableType(0, type); popVariable(); }
RECURSIVE SetAndPop(_, _, _)
SetAndPop(cx, type, n) ==
    IF n = 0 \/ cx.status # "ok" THEN cx
    ELSE IF cx.stack = <<>> THEN Undefined(cx)
    ELSE SetAndPop(popVariable(setVariableType(cx, 0, type), TRUE), type, n - 1)

\* the common body of analyzeStackBool and analyzeStackShift
IntPair(cx, name) ==
    IF Len(cx.stack) < 2
      THEN Throw(cx, name \o "(): Stack underrun")
    ELSE IF CheckOperands(cx, <<"Int", "Int">>) # "ok"
      THEN Throw(cx, name \o "(): Invalid types")
    ELSE pushVariable(PopRead(SetOperands(cx, <<"Int", "Int">>, 1), 2),
                      "Int", "Local")

\* analyzeStackBool: LOGAND, LOGOR, INCOR, EXCOR, BOOLAND
analyzeStackBool(cx, ins) == IntPair(cx, "analyzeStackBool")

\* analyzeStackShift: SHLEFT, SHRIGHT, USHRIGHT
analyzeStackShift(cx, ins) == IntPair(cx, "analyzeStackShift")

\* lines 902-914: the check is for size entries, the pops take 2 * size
EqUnderrun(stackSize, size) == stackSize < 2 * size

RECURSIVE SameTypes(_, _, _, _)
SameTypes(cx, vars1, vars2, i) ==
    IF i > Len(vars1) THEN cx
    ELSE SameTypes(sameVariableType(cx, vars1[i], vars2[i]), vars1, vars2, i + 1)

\* analyzeStackEq: EQ, NEQ, GEQ, GT, LT, LEQ
analyzeStackEq(cx, ins) ==
    LET argCount == Len(ins.args)
        size     == IF argCount = 1 THEN ins.args[1] \div 4 ELSE 1
    IN  IF argCount = 1 /\ (ins.args[1] < 0 \/ ins.args[1] % 4 # 0)
          THEN Throw(cx, "analyzeStackEq(): Invalid argument")
        ELSE IF Len(cx.stack) < size
          THEN Throw(cx, "analyzeStackEq(): Stack underrun")
        ELSE IF EqUnderrun(Len(cx.stack), size)
          THEN Undefined(cx)
        ELSE pushVariable(SameTypes(PopRead(cx, 2 * size),
                                    SubSeq(cx.stack, 1, size),
                                    SubSeq(cx.stack, size + 1, 2 * size), 1),
                          "Int", "Local")

SameTypeForms == {"kInstTypeIntInt", "kInstTypeFloatFloat", "kInstTypeStringString"}

\* the operand types the switch of analyzeStackBinArithm checks, by offset
BinArithmOperands(type) ==
    CASE type \in SameTypeForms ->
           <<instructionTypeToVariableType(type), instructionTypeToVariableType(type)>>
      [] type = "kInstTypeIntFloat" -> <<"Float", "Int">>
      [] type = "kInstTypeFloatInt" -> <<"Int", "Float">>
      [] type = "kInstTypeVectorVector" ->
           <<"Float", "Float", "Float", "Float", "Float", "Float">>
      [] type \in {"kInstTypeVectorFloat", "kInstTypeFloatVector"} ->
           <<"Float", "Float", "Float", "Float">>
      [] OTHER -> <<>>

\* a mixed operation whose result takes the type of its top operand
TopOperandType(type) == BinArithmOperands(type)[1]

\* the type of the one result of a same-type or mixed operation
BinArithmResult(type) ==
    IF type \in SameTypeForms THEN instructionTypeToVariableType(type) ELSE "Float"

\* analyzeStackBinArithm: ADD, SUB, MUL, DIV, MOD
analyzeStackBinArithm(cx, ins) ==
    LET type     == instructionTypeToVariableType(ins.type)
        operands == BinArithmOperands(ins.type)
        checked  == CheckOperands(cx, operands)
    IN  IF Len(cx.stack) < 2
          THEN Throw(cx, "analyzeStackArithm(): Stack underrun")
        ELSE IF type = "Void"
          THEN Throw(cx, "analyzeStackArithm(): Invalid instruction type")
        ELSE IF operands = <<>>
          THEN Throw(cx, "analyzeStackBinArithm(): Invalid instruction type")
        ELSE IF checked = "ub"
          THEN Undefined(cx)
        ELSE IF checked = "mismatch"
          THEN Throw(cx, "analyzeStackBinArithm(): Invalid types")
        ELSE IF ins.type \in SameTypeForms
          THEN pushVariable(SetAndPop(cx, type, 2), BinArithmResult(ins.type), "Local")
        ELSE IF ins.type \in {"kInstTypeIntFloat", "kInstTypeFloatInt"}
          THEN pushVariable(PopRead(SetOperands(cx, operands, 1), 2),
                            BinArithmResult(ins.type), "Local")
        ELSE pushVariable(pushVariable(pushVariable(
                 SetAndPop(cx, "Float", Len(operands)),
                 "Float", "Local"), "Float", "Local"), "Float", "Local")

\* analyzeStackRESTOREBP
analyzeStackRESTOREBP(cx, ins) ==
    IF Len(cx.stack) < 1
      THEN Throw(cx, "analyzeStackRESTOREBP(): Stack underrun")
      ELSE popVariable(cx, TRUE)

\* lines 1148 and 1174: the argument of DECSP, INCSP, DECBP, INCBP
InvalidOffset(offset) == offset > -4 \/ offset % 4 # 0

\* analyzeStackModifySP: DECSP, INCSP
analyzeStackModifySP(cx, ins) ==
    LET offset == StackIndex(ins.args[1])
    IN  IF InvalidOffset(ins.args[1])
          THEN Throw(cx, "analyzeStackModifySP(): Invalid argument")
        ELSE IF offset > Len(cx.stack)
          THEN Throw(cx, "analyzeStackModifySP(): Stack underrun")
        ELSE IF offset = Len(cx.stack)
          THEN Undefined(cx)
        ELSE IF ~checkVariableType(cx, offset, "Int")
          THEN Throw(cx, "analyzeStackModifySP(): Invalid types")
        ELSE writeVariable(readVariable(setVariableType(cx, offset, "Int"),
                                        offset), offset)

\* (*ctx.globals)[offset].variable->readers.push_back(ctx.instruction)
readGlobal(cx, offset) ==
    [cx EXCEPT !.variables[cx.globals[offset + 1] + 1].readers =
                   Append(@, InstructionOf(cx))]

\* (*ctx.globals)[offset].variable->writers.push_back(ctx.instruction)
writeGlobal(cx, offset) ==
    [cx EXCEPT !.variables[cx.globals[offset + 1] + 1].writers =
                   Append(@, InstructionOf(cx))]

\* analyzeStackModifyBP: DECBP, INCBP
analyzeStackModifyBP(cx, ins) ==
    LET offset == StackIndex(ins.args[1])
    IN  IF ~cx.hasGlobals
          THEN Throw(cx, "analyzeStackModifyBP(): No context globals")
        ELSE IF InvalidOffset(ins.args[1])
          THEN Throw(cx, "analyzeStackModifyBP(): Invalid argument")
        ELSE IF offset > Len(cx.globals)
          THEN Throw(cx, "analyzeStackModifyBP(): Globals underrun")
        ELSE IF offset = Len(cx.globals)
          THEN Undefined(cx)
        ELSE writeGlobal(readGlobal(cx, offset), offset)

\* lines 777-783
RECURSIVE CopyTopGlobals(_, _, _)
CopyTopGlobals(cx, offset, size) ==
    IF size <= 0 THEN cx
    ELSE LET r == readGlobal(cx, offset)
         IN  CopyTopGlobals(pushVariable(r, TypeOf(r, r.globals[offset + 1]),
                                         "Unknown"),
                            offset - 1, size - 1)

\* analyzeStackCPTOPBP
analyzeStackCPTOPBP(cx, ins) ==
    LET offset == StackIndex(ins.args[1])
        size   == ins.args[2] \div 4
    IN  IF InvalidCopyArguments(ins.args[1], ins.args[2])
          THEN Throw(cx, "analyzeStackCPTOPBP(): Invalid arguments")
        ELSE IF ~cx.hasGlobals
          THEN Throw(cx, "analyzeStackCPTOPBP(): No context globals")
        ELSE IF offset >= Len(cx.globals) \/ size > offset + 1
          THEN Throw(cx, "analyzeStackCPTOPBP(): Globals underrun")
        ELSE CopyTopGlobals(cx, offset, size)

\* lines 805-818
RECURSIVE CopyDownGlobals(_, _, _)
CopyDownGlobals(cx, offset, size) ==
    IF size <= 0 \/ cx.status # "ok" THEN cx
    ELSE IF size - 1 >= Len(cx.stack) THEN Undefined(cx)
    ELSE LET pos    == size - 1
             r      == readVariable(cx, pos)
             global == r.globals[offset + 1]
             type   == IF TypeAt(r, pos) = "Any" THEN TypeOf(r, global)
                       ELSE TypeAt(r, pos)
             w      == writeGlobal(
                           [r EXCEPT !.variables[VarAt(r, pos) + 1].type = type],
                           offset)
         IN  CopyDownGlobals([w EXCEPT !.variables[global + 1].type = type],
                             offset - 1, size - 1)

\* analyzeStackCPDOWNBP
analyzeStackCPDOWNBP(cx, ins) ==
    LET offset == StackIndex(ins.args[1])
        size   == ins.args[2] \div 4
    IN  IF InvalidCopyArguments(ins.args[1], ins.args[2])
          THEN Throw(cx, "analyzeStackCPDOWNBP(): Invalid arguments")
        ELSE IF ~cx.hasGlobals
          THEN Throw(cx, "analyzeStackCPDOWNBP(): No context globals")
        ELSE IF offset >= Len(cx.globals) \/ size > offset + 1
          THEN Throw(cx, "analyzeStackCPDOWNBP(): Globals underrun")
        ELSE CopyDownGlobals(cx, offset, size)

\* int16 x = args[i]: the value an int16 takes from an int32
Int16(x) == ((x + 32768) % 65536) - 32768

Destruct(stackSize, dontRemoveOffset, dontRemoveSize) ==
    OpA("DESTRUCT", <<stackSize, dontRemoveOffset, dontRemoveSize>>)

\* a DESTRUCT that takes whatever arguments it is given
AnyDestructArguments(stackSize, dontRemoveOffset, dontRemoveSize) == FALSE

\* lines 1079-1080
InvalidDestructArguments(stackSize, dontRemoveOffset, dontRemoveSize) ==
    \/ stackSize % 4 # 0 \/ dontRemoveOffset % 4 # 0 \/ dontRemoveSize % 4 # 0
    \/ stackSize < 0 \/ dontRemoveOffset < 0 \/ dontRemoveSize < 0

\* an entry kept whatever lies above the start of the kept range
KeptAbove(stackSize, dontRemoveOffset, dontRemoveSize) ==
    stackSize > dontRemoveOffset

\* lines 1088-1089: is the entry now on top, stackSize bytes from the end of
\* the destructed region, one to carry over
Kept(stackSize, dontRemoveOffset, dontRemoveSize) ==
    /\ stackSize <= dontRemoveOffset + dontRemoveSize
    /\ stackSize > dontRemoveOffset

\* the carried entries put back first to last, that is, in reverse
PutBackReversed(cx, tmp) ==
    [cx EXCEPT !.subStack = @ + Len(tmp),
               !.stack = [k \in 1..Len(tmp) |-> tmp[Len(tmp) + 1 - k]] \o @]

\* lines 1098-1101: the carried entries are pushed back, the last one first
PutBack(cx, tmp) ==
    [cx EXCEPT !.subStack = @ + Len(tmp), !.stack = tmp \o @]

\* lines 1086-1096
RECURSIVE DestructLoop(_, _, _, _, _)
DestructLoop(cx, stackSize, dontRemoveOffset, dontRemoveSize, tmp) ==
    IF stackSize <= 0 THEN PutBack(cx, tmp)
    ELSE IF cx.stack = <<>> THEN Undefined(cx)
    ELSE DestructLoop([cx EXCEPT !.subStack = @ - 1, !.stack = Tail(@)],
                      stackSize - 4, dontRemoveOffset, dontRemoveSize,
                      IF Kept(stackSize, dontRemoveOffset, dontRemoveSize)
                        THEN Append(tmp, Head(cx.stack)) ELSE tmp)

\* analyzeStackDestruct
analyzeStackDestruct(cx, ins) ==
    LET stackSize        == Int16(ins.args[1])
        dontRemoveOffset == Int16(ins.args[2])
        dontRemoveSize   == Int16(ins.args[3])
    IN  IF InvalidDestructArguments(stackSize, dontRemoveOffset, dontRemoveSize)
          THEN Throw(cx, "analyzeStackDestruct(): Invalid arguments")
          ELSE DestructLoop(cx, stackSize, dontRemoveOffset, dontRemoveSize, <<>>)

\* The function database of the game (getFunctionParameterCount,
\* getFunctionParameters, getFunctionReturnType): three engine functions,
\* numbered from 0, with their declared parameter types and return type.
Functions ==
    <<[params |-> <<>>,                       return |-> "Vector"],
      [params |-> <<"Int", "Vector">>,        return |-> "Void"],
      [params |-> <<"ScriptState", "Float">>, return |-> "Int"]>>

getFunctionParameterCount(function) == Len(Functions[function + 1].params)
getFunctionParameters(function)     == Functions[function + 1].params
getFunctionReturnType(function)     == Functions[function + 1].return

EngineCall(function, paramCount) == OpA("ACTION", <<function, paramCount>>)

\* an ACTION for which every parameter is one stack entry
OneEntry(type) == 1

\* lines 839-840: a vector parameter is three floats on the stack
ParameterEntries(type) == IF type = "Vector" THEN 3 ELSE 1
ParameterType(type)    == IF type = "Vector" THEN "Float" ELSE type

\* lines 846-857: the entries of one parameter are checked, typed and popped
RECURSIVE PopParameter(_, _, _)
PopParameter(cx, type, n) ==
    IF n = 0 \/ cx.status # "ok" THEN cx
    ELSE IF cx.stack = <<>>
      THEN Throw(cx, "analyzeStackACTION(): Stack underrun")
    ELSE IF ~checkVariableType(cx, 0, type)
      THEN Throw(cx, "analyzeStackACTION(): Parameter type mismatch")
    ELSE PopParameter(popVariable(setVariableType(cx, 0, type), TRUE), type, n - 1)

\* lines 838-858: the first paramCount declared parameters, in order
RECURSIVE PopParameters(_, _, _, _)
PopParameters(cx, types, i, paramCount) ==
    IF i > paramCount \/ cx.status # "ok" THEN cx
    ELSE IF ParameterType(types[i]) = "ScriptState"
      THEN PopParameters(cx, types, i + 1, paramCount)
    ELSE PopParameters(PopParameter(cx, ParameterType(types[i]),
                                    ParameterEntries(types[i])),
                       types, i + 1, paramCount)

\* lines 860-872: the return value
PushReturn(cx, returnType) ==
    IF cx.status # "ok" \/ returnType = "Void" THEN cx
    ELSE IF returnType = "Vector"
      THEN pushVariable(pushVariable(pushVariable(cx, "Float", "Local"),
                                     "Float", "Local"), "Float", "Local")
    ELSE pushVariable(cx, returnType, "Local")

\* analyzeStackACTION
analyzeStackACTION(cx, ins) ==
    LET function   == ins.args[1]
        paramCount == ins.args[2]
    IN  IF function < 0 \/ paramCount < 0
          THEN Throw(cx, "analyzeStackACTION(): Invalid arguments")
        ELSE IF getFunctionParameterCount(function) < paramCount
          THEN Throw(cx, "analyzeStackACTION(): Invalid number of parameters")
        ELSE PushReturn(PopParameters(cx, getFunctionParameters(function), 1,
                                      paramCount),
                        getFunctionReturnType(function))

\* the globals stack without the dummy frame, every entry marked as a global
\* the globals taken to be the whole stack, dummy frame included
WholeStack(stack) == stack

WithoutDummyFrame(stack) ==
    SubSeq(stack, 1, Len(stack) - Min(Len(stack), kDummyStackFrameSize))

MarkGlobals(vs, gs) ==
    [i \in DOMAIN vs |->
        IF \E k \in DOMAIN gs : gs[k] + 1 = i
          THEN [vs[i] EXCEPT !.use = "Global"] ELSE vs[i]]

\* analyzeStackSAVEBP
analyzeStackSAVEBP(cx, ins) ==
    IF cx.mode # "Global"
      THEN Throw(cx, "analyzeStackSAVEBP(): Found SAVEBP outside of globals analysis")
    ELSE IF ~cx.hasGlobals
      THEN Throw(cx, "analyzeStackSAVEBP(): No context globals?!?")
    ELSE IF cx.globals # <<>>
      THEN Throw(cx, "analyzeStackSAVEBP(): Encountered multiple SAVEBP calls")
    ELSE LET gs == WithoutDummyFrame(cx.stack)
         IN  pushVariable([cx EXCEPT !.globals = gs,
                                     !.variables = MarkGlobals(@, gs)],
                          "Int", "Local")

\* opcodes without an entry in kAnalyzeStackFunc: NOP, JMP, STORESTATE, ...
analyzeStackNone(cx, ins) == cx

----------------------------------------------------------------------------
(* Families of input programs.  A family fixes, per block, the             *)
(* instructions the disassembler may have produced and the successor lists *)
(* the block may have, how many instructions the program holds at most,    *)
(* and the calls the driver makes: <<mode, subroutine, globals passed>>.   *)

Edge(b, t) == [block |-> b, type |-> t]

RSADDInt   == OpT("RSADD", "kInstTypeInt")
RSADDFloat == OpT("RSADD", "kInstTypeFloat")

Main(f) == <<"SubRoutine", 1, f>>

\* the driver's two calls: analyzeGlobals on the initializer subroutine 2,
\* then analyzeSubRoutineStack on the entry subroutine 1 with its globals
DriverSequence == <<{<<"Global", 2, TRUE>>}, {Main(TRUE)}>>

Family(f) ==
    CASE f = "calls" ->
           [ops    |-> [b \in Blocks |->
                          IF b = 1 THEN {RSADDInt, RSADDFloat, JSR(2)}
                          ELSE {RSADDInt, OpA("MOVSP", <<-4>>),
                                OpA("MOVSP", <<-8>>), Op("RETN"),
                                OpA("CPDOWNSP", <<-8, 4>>),
                                OpA("CPDOWNSP", <<-12, 4>>)}],
            edges  |-> [b \in Blocks |-> {<<>>}],
            tops   |-> <<{Main(FALSE)}>>,
            budget |-> MaxInstrCalls]
      [] f = "types" ->
           [ops    |-> [b \in Blocks |->
                          IF b = 1 THEN {RSADDInt, RSADDFloat, JSR(2),
                                         OpA("CPTOPSP", <<-4, 4>>),
                                         OpA("CPDOWNSP", <<-8, 4>>),
                                         OpT("NEG", "kInstTypeFloat")}
                          ELSE {Op("RETN")}],
            edges  |-> [b \in Blocks |-> {<<>>}],
            tops   |-> <<{Main(FALSE)}>>,
            budget |-> MaxInstrTypes]
      [] f = "recursion" ->
           [ops    |-> [b \in Blocks |->
                          IF b = 1 THEN {RSADDInt, JSR(1), JSR(2)}
                          ELSE {Op("RETN"), JSR(1), JSR(2), JSR(3)}],
            edges  |-> [b \in Blocks |-> {<<>>}],
            tops   |-> <<{Main(FALSE)}>>,
            budget |-> MaxInstrRecursion]
      [] f = "blocks" ->
           [ops    |-> [b \in Blocks |->
                          IF b = 3 THEN {RSADDInt, OpA("MOVSP", <<4>>)}
                          ELSE {RSADDInt}],
            edges  |-> [b \in Blocks |->
                          IF b > 3 THEN {<<>>}
                          ELSE {<<>>}
                               \cup {<<Edge(t, "Unconditional")>> : t \in 1..3}
                               \cup {<<Edge(t, "ConditionalTrue"),
                                       Edge(u, "ConditionalFalse")>> :
                                         t \in 1..3, u \in 2..3}
                               \cup {<<Edge(4, "FunctionCall"),
                                       Edge(u, "Unconditional")>> : u \in 1..2}
                               \cup {<<Edge(3, "StoreState"),
                                       Edge(u, "Unconditional")>> : u \in 1..2}],
            tops   |-> <<{Main(FALSE)}>>,
            budget |-> MaxInstrBlocks]
      [] f = "globals" ->
           [ops    |-> [b \in Blocks |->
                          IF b = 1
                            THEN {RSADDInt, RSADDFloat, OpT("RSADD", "kInstTypeString"),
                                  OpT("RSADD", "kInstTypeObject"), Op("SAVEBP"),
                                  OpA("MOVSP", <<-4>>)}
                            ELSE {RSADDInt, Op("SAVEBP")}],
            edges  |-> [b \in Blocks |-> {<<>>}],
            tops   |-> <<{<<"Global", 1, TRUE>>, <<"SubRoutine", 2, TRUE>>}>>,
            budget |-> MaxInstrGlobals]
      [] f = "inert" ->
           [ops    |-> [b \in Blocks |->
                          IF b = 1
                            THEN {RSADDInt, RSADDFloat, Op("SAVEBP"), JSR(1), JSR(2),
                                  OpA("MOVSP", <<-4>>)}
                            ELSE {RSADDInt, Op("RETN")}],
            edges  |-> [b \in Blocks |-> {<<>>}],
            tops   |-> <<{<<"Global", 1, TRUE>>}>>,
            budget |-> MaxInstrInert]
      [] f = "action" ->
           [ops    |-> [b \in Blocks |->
                          {RSADDInt, RSADDFloat, EngineCall(0, 0), EngineCall(1, 1),
                           EngineCall(1, 2), EngineCall(1, 3), EngineCall(2, 2)}],
            edges  |-> [b \in Blocks |-> {<<>>}],
            tops   |-> <<{Main(FALSE)}>>,
            budget |-> MaxInstrAction]
      [] f = "rerun" ->
           [ops    |-> [b \in Blocks |->
                          IF b = 1 THEN {RSADDInt, JSR(2),
                                         OpA("CPTOPSP", <<-4, 4>>),
                                         OpT("NEG", "kInstTypeFloat")}
                          ELSE {OpA("CPDOWNSP", <<-8, 4>>),
                                OpA("MOVSP", <<-4>>), Op("RETN")}],
            edges  |-> [b \in Blocks |-> {<<>>}],
            tops   |-> <<{Main(FALSE)}, {<<"SubRoutine", 2, FALSE>>}>>,
            budget |-> MaxInstrRerun]
      [] f = "malformed" ->
           [ops    |-> [b \in Blocks |->
                          {RSADDInt, Op("SAVEBP")}
                          \cup {OpA("CPTOPSP", a) :
                                  a \in {<<-4, 4>>, <<0, 4>>, <<-6, 4>>, <<-4, -4>>, <<-4, 6>>}}
                          \cup {OpA("CPDOWNSP", a) :
                                  a \in {<<-8, 4>>, <<-2, 4>>, <<-4, 2>>}}
                          \cup {OpA("CPTOPBP", a) :
                                  a \in {<<-4, 4>>, <<0, 4>>, <<-4, 3>>}}
                          \cup {OpA("CPDOWNBP", a) :
                                  a \in {<<-4, 4>>, <<4, 4>>, <<-4, -8>>}}
                          \cup {OpA("DECSP", <<a>>) : a \in {-4, 0, -5}}
                          \cup {OpA("INCSP", <<a>>) : a \in {-8, -3}}
                          \cup {OpA("DECBP", <<a>>) : a \in {-4, -2}}
                          \cup {OpA("INCBP", <<a>>) : a \in {-8, 0}}
                          \cup {OpA("MOVSP", <<a>>) : a \in {-4, 4, -3}}
                          \cup {Destruct(4, 0, 4), Destruct(6, 0, 0), Destruct(4, -4, 0),
                                Destruct(4, 0, 2), Destruct(-4, 0, 0)}
                          \cup {OpA("EQ", a) : a \in {<<>>, <<4>>, <<-4>>, <<6>>}}
                          \cup {OpA("NEQ", a) : a \in {<<8>>, <<2>>}}],
            edges  |-> [b \in Blocks |-> {<<>>}],
            tops   |-> <<{Main(FALSE), Main(TRUE), <<"Global", 1, TRUE>>}>>,
            budget |-> MaxInstrMalformed]
      [] f = "underrun" ->
           [ops    |-> [b \in Blocks |->
                          {OpA("MOVSP", <<a>>) : a \in {-132, -128, -124, -120}}
                          \cup {OpA("EQ", <<>>), OpA("EQ", <<8>>), Op("LOGAND"),
                                Op("SHLEFT"), Op("JZ"), Op("RESTOREBP"),
                                OpT("ADD", "kInstTypeIntInt"),
                                OpT("ADD", "kInstTypeVectorVector"),
                                Destruct(12, 0, 0), EngineCall(1, 2)}],
            edges  |-> [b \in Blocks |-> {<<>>}],
            tops   |-> <<{Main(FALSE)}>>,
            budget |-> MaxInstrUnderrun]
      [] f = "operands" ->
           [ops    |-> [b \in Blocks |->
                          {RSADDInt, RSADDFloat, Op("LOGAND"), Op("SHLEFT"), Op("JZ"),
                           OpT("NEG", "kInstTypeInt"), OpT("NEG", "kInstTypeFloat"),
                           EngineCall(1, 1), EngineCall(1, 2), EngineCall(2, 2)}
                          \cup {OpT("ADD", t) :
                                  t \in {"kInstTypeIntInt", "kInstTypeFloatFloat",
                                         "kInstTypeIntFloat", "kInstTypeFloatInt",
                                         "kInstTypeVectorVector",
                                         "kInstTypeVectorFloat"}}],
            edges  |-> [b \in Blocks |-> {<<>>}],
            tops   |-> <<{Main(FALSE)}>>,
            budget |-> MaxInstrOperands]
      [] f = "destruct" ->
           [ops    |-> [b \in Blocks |->
                          {RSADDInt, Destruct(0, 0, 0), Destruct(4, 0, 4),
                           Destruct(4, 0, 0), Destruct(8, 0, 8), Destruct(8, 0, 4),
                           Destruct(8, 4, 4), Destruct(8, 4, 8), Destruct(12, 0, 12),
                           Destruct(12, 0, 4), Destruct(12, 4, 4),
                           Destruct(12, 8, 4), Destruct(12, 4, 8)}],
            edges  |-> [b \in Blocks |-> {<<>>}],
            tops   |-> <<{Main(FALSE)}>>,
            budget |-> MaxInstrDestruct]
      [] f = "branches" ->
           [ops    |-> [b \in Blocks |->
                          IF b = 1 THEN {RSADDInt}
                          ELSE IF b = 4 THEN {OpA("MOVSP", <<-4>>), Op("RETN")}
                          ELSE {RSADDInt, OpA("MOVSP", <<-4>>), Op("RETN"),
                                OpA("CPDOWNSP", <<-4, 4>>), JSR(2)}],
            edges  |-> [b \in Blocks |->
                          IF b = 1 THEN {<<>>, <<Edge(2, "ConditionalTrue"),
                                                 Edge(3, "ConditionalFalse")>>}
                          ELSE IF b = 2 THEN {<<>>, <<Edge(3, "Unconditional")>>,
                                              <<Edge(4, "FunctionCall"),
                                                Edge(3, "Unconditional")>>}
                          ELSE {<<>>}],
            tops   |-> <<{Main(FALSE)}>>,
            budget |-> MaxInstrBranches]
      [] f = "reconcile" ->
           [ops    |-> [b \in Blocks |->
                          IF b = 1 THEN {RSADDInt, RSADDFloat, JSR(2),
                                         OpA("CPTOPSP", <<-4, 4>>)}
                          ELSE {OpA("MOVSP", <<-4>>), Op("RETN"),
                                OpA("CPDOWNSP", <<-4, 4>>),
                                OpA("CPDOWNSP", <<-8, 4>>)}],
            edges  |-> [b \in Blocks |-> {<<>>}],
            tops   |-> <<{Main(FALSE)}>>,
            budget |-> MaxInstrReconcile]
      [] f = "copies" ->
           [ops    |-> [b \in Blocks |->
                          {RSADDInt, RSADDFloat}
                          \cup {OpA("CPTOPSP", a) :
                                  a \in {<<-4, 4>>, <<-8, 4>>, <<-8, 8>>, <<-12, 8>>,
                                         <<-12, 12>>, <<-4, 8>>, <<-4, 0>>}}],
            edges  |-> [b \in Blocks |-> {<<>>}],
            tops   |-> <<{Main(FALSE)}>>,
            budget |-> MaxInstrCopies]
      [] f = "fixup" ->
           [ops    |-> [b \in Blocks |->
                          IF b = 1 THEN {OpA("CPTOPSP", <<-4, 4>>),
                                         OpT("NEG", "kInstTypeInt"),
                                         OpT("NEG", "kInstTypeFloat"),
                                         OpA("MOVSP", <<-4>>), JSR(2)}
                          ELSE {Op("RETN")}],
            edges  |-> [b \in Blocks |-> {<<>>}],
            tops   |-> <<{Main(FALSE)}>>,
            budget |-> MaxInstrFixup]
      [] f = "bounds" ->
           [ops    |-> [b \in Blocks |->
                          {RSADDInt, RSADDFloat, Op("SAVEBP"),
                           OpA("DECSP", <<-4>>), OpA("DECSP", <<-132>>),
                           OpA("INCSP", <<-136>>),
                           OpA("CPTOPSP", <<-128, 4>>), OpA("CPTOPSP", <<-132, 4>>),
                           OpA("CPDOWNSP", <<-132, 4>>), OpA("CPDOWNSP", <<-4, 8>>),
                           OpA("DECBP", <<-4>>), OpA("INCBP", <<-8>>),
                           OpA("CPTOPBP", <<-4, 4>>), OpA("CPDOWNBP", <<-4, 4>>),
                           OpA("CPDOWNBP", <<-8, 4>>)}],
            edges  |-> [b \in Blocks |-> {<<>>}],
            tops   |-> <<{Main(FALSE), Main(TRUE), <<"Global", 1, TRUE>>}>>,
            budget |-> MaxInstrBounds]
      [] f = "returns" ->
           [ops    |-> [b \in Blocks |->
                          IF b = 1 THEN {RSADDInt, RSADDFloat, JSR(2)}
                          ELSE {OpA("CPDOWNSP", <<-8, 8>>),
                                OpA("CPDOWNSP", <<-8, 4>>),
                                OpA("MOVSP", <<-4>>), Op("RETN")}],
            edges  |-> [b \in Blocks |-> {<<>>}],
            tops   |-> <<{Main(FALSE)}>>,
            budget |-> MaxInstrReturns]
      [] f = "driver" ->
           [ops    |-> [b \in Blocks |->
                          IF b = 1 THEN {RSADDInt, JSR(2), JSR(3)}
                          ELSE IF b = 4 THEN {RSADDInt, Op("SAVEBP"), JSR(3),
                                              Op("RETN")}
                          ELSE {RSADDInt, Op("RETN")}],
            edges  |-> [b \in Blocks |-> {<<>>}],
            tops   |-> DriverSequence,
            budget |-> MaxInstrDriver]
      [] OTHER ->
           [ops    |-> [b \in Blocks |-> {Op("NOP")}],
            edges  |-> [b \in Blocks |-> {<<>>}],
            tops   |-> <<{Main(FALSE)}>>,
            budget |-> 0]

Families == {"calls", "types", "recursion", "blocks", "globals", "inert", "action", "destruct", "rerun", "malformed", "underrun", "operands",
             "branches", "reconcile", "copies", "fixup", "bounds", "returns",
             "driver"}

\* the calls the driver may make as its n-th call
Tops(n) ==
    LET t == Family(family).tops
    IN  IF n <= Len(t) THEN t[n] ELSE {}

Fetched == Len(code[1]) + Len(code[2]) + Len(code[3]) + Len(code[4]) + Len(code[5])

Static(i) == Ins(i.opcode, i.type, i.args, i.branch)

\* the instructions that may stand at the position the walker is at
Fetch ==
    IF ctx.instruction <= Len(code[ctx.block])
      THEN {Static(code[ctx.block][ctx.instruction])}
    ELSE IF ctx.block \in closed \/ Fetched >= Family(family).budget
      THEN {}
    ELSE Family(family).ops[ctx.block]

----------------------------------------------------------------------------
(* analyzeInstructionStack: the snapshot kept on the instruction, then the *)
(* handler of the opcode.                                                  *)

InstructionStack(stack, subStack) ==
    IF ULess(subStack, Len(stack)) THEN SubSeq(stack, 1, subStack) ELSE stack

Recorded(ins) ==
    LET rec == ins @@ [stack    |-> InstructionStack(ctx.stack, ctx.subStack),
                       subStack |-> ctx.subStack,
                       depth    |-> Len(ctx.stack)]
    IN  IF ctx.instruction <= Len(code[ctx.block])
          THEN [code EXCEPT ![ctx.block][ctx.instruction] = rec]
          ELSE [code EXCEPT ![ctx.block] = Append(@, rec)]

Store(cx) ==
    /\ variables' = cx.variables
    /\ globals'   = cx.globals
    /\ params'    = cx.params
    /\ returns'   = cx.returns
    /\ dupLog'    = cx.dupLog

Outcome(cx, address) ==
    /\ pc'  = CASE cx.status = "ok" -> pc [] cx.status = "ub" -> "ub" [] OTHER -> "error"
    /\ err' = IF cx.status \in {"ok", "ub"} THEN err
              ELSE [msg |-> cx.status, address |-> address]

\* one instruction of the loop in analyzeBlockStack, its handler being H
Step(ins, cx) ==
    /\ code' = Recorded(ins)
    /\ Store(cx)
    /\ ctx' = [CtxOf(cx) EXCEPT !.instruction =
                  IF cx.status = "ok" THEN @ + 1 ELSE @]
    /\ Outcome(cx, InstrAddress(ctx.block, ctx.instruction))
    /\ UNCHANGED <<subState, blockState, closed, children, frames, child,
                   family, earlier, calls, walks>>

Push ==
    /\ pc = "instr"
    /\ \E ins \in Fetch :
         /\ ins.opcode \in {"RSADD", "CONST"}
         /\ Step(ins, analyzeStackPush(Cx(ctx), ins))

Pop ==
    /\ pc = "instr"
    /\ \E ins \in Fetch :
         /\ ins.opcode = "MOVSP"
         /\ Step(ins, analyzeStackPop(Cx(ctx), ins))

RETN ==
    /\ pc = "instr"
    /\ \E ins \in Fetch :
         /\ ins.opcode = "RETN"
         /\ Step(ins, analyzeStackRETN(Cx(ctx), ins))

CPTOPSP ==
    /\ pc = "instr"
    /\ \E ins \in Fetch :
         /\ ins.opcode = "CPTOPSP"
         /\ Step(ins, analyzeStackCPTOPSP(Cx(ctx), ins))

CPDOWNSP ==
    /\ pc = "instr"
    /\ \E ins \in Fetch :
         /\ ins.opcode = "CPDOWNSP"
         /\ Step(ins, analyzeStackCPDOWNSP(Cx(ctx), ins))

UnArithm ==
    /\ pc = "instr"
    /\ \E ins \in Fetch :
         /\ ins.opcode \in {"NEG", "COMP", "NOT"}
         /\ Step(ins, analyzeStackUnArithm(Cx(ctx), ins))

Cond ==
    /\ pc = "instr"
    /\ \E ins \in Fetch :
         /\ ins.opcode \in {"JZ", "JNZ"}
         /\ Step(ins, analyzeStackCond(Cx(ctx), ins))

SAVEBP ==
    /\ pc = "instr"
    /\ \E ins \in Fetch :
         /\ ins.opcode = "SAVEBP"
         /\ Step(ins, analyzeStackSAVEBP(Cx(ctx), ins))

Action ==
    /\ pc = "instr"
    /\ \E ins \in Fetch :
         /\ ins.opcode = "ACTION"
         /\ Step(ins, analyzeStackACTION(Cx(ctx), ins))

Destructs ==
    /\ pc = "instr"
    /\ \E ins \in Fetch :
         /\ ins.opcode = "DESTRUCT"
         /\ Step(ins, analyzeStackDestruct(Cx(ctx), ins))

Bool ==
    /\ pc = "instr"
    /\ \E ins \in Fetch :
         /\ ins.opcode \in {"LOGAND", "LOGOR", "INCOR", "EXCOR", "BOOLAND"}
         /\ Step(ins, analyzeStackBool(Cx(ctx), ins))

Eq ==
    /\ pc = "instr"
    /\ \E ins \in Fetch :
         /\ ins.opcode \in {"EQ", "NEQ", "GEQ", "GT", "LT", "LEQ"}
         /\ Step(ins, analyzeStackEq(Cx(ctx), ins))

Shift ==
    /\ pc = "instr"
    /\ \E ins \in Fetch :
         /\ ins.opcode \in {"SHLEFT", "SHRIGHT", "USHRIGHT"}
         /\ Step(ins, analyzeStackShift(Cx(ctx), ins))

BinArithm ==
    /\ pc = "instr"
    /\ \E ins \in Fetch :
         /\ ins.opcode \in {"ADD", "SUB", "MUL", "DIV", "MOD"}
         /\ Step(ins, analyzeStackBinArithm(Cx(ctx), ins))

RESTOREBP ==
    /\ pc = "instr"
    /\ \E ins \in Fetch :
         /\ ins.opcode = "RESTOREBP"
         /\ Step(ins, analyzeStackRESTOREBP(Cx(ctx), ins))

ModifySP ==
    /\ pc = "instr"
    /\ \E ins \in Fetch :
         /\ ins.opcode \in {"DECSP", "INCSP"}
         /\ Step(ins, analyzeStackModifySP(Cx(ctx), ins))

ModifyBP ==
    /\ pc = "instr"
    /\ \E ins \in Fetch :
         /\ ins.opcode \in {"DECBP", "INCBP"}
         /\ Step(ins, analyzeStackModifyBP(Cx(ctx), ins))

CPTOPBP ==
    /\ pc = "instr"
    /\ \E ins \in Fetch :
         /\ ins.opcode = "CPTOPBP"
         /\ Step(ins, analyzeStackCPTOPBP(Cx(ctx), ins))

CPDOWNBP ==
    /\ pc = "instr"
    /\ \E ins \in Fetch :
         /\ ins.opcode = "CPDOWNBP"
         /\ Step(ins, analyzeStackCPDOWNBP(Cx(ctx), ins))

NoHandler ==
    /\ pc = "instr"
    /\ \E ins \in Fetch :
         /\ ins.opcode \in {"NOP", "JMP", "STORESTATE"}
         /\ Step(ins, analyzeStackNone(Cx(ctx), ins))

----------------------------------------------------------------------------
(* analyzeSubRoutineStack(ctx). *)

\* parameters popped the way an instruction pops its operands, as reads
RECURSIVE ReconcileReading(_, _)
ReconcileReading(cx, i) ==
    IF i > Len(cx.params[cx.sub]) \/ cx.status # "ok" THEN cx
    ELSE IF cx.stack = <<>> THEN Undefined(cx)
    ELSE ReconcileReading(
             popVariable(sameVariableType(cx, cx.params[cx.sub][i], Head(cx.stack)),
                         TRUE),
             i + 1)

RECURSIVE ReconcileParams(_, _)
ReconcileParams(cx, i) ==
    IF i > Len(cx.params[cx.sub]) \/ cx.status # "ok" THEN cx
    ELSE IF cx.stack = <<>> THEN Undefined(cx)
    ELSE ReconcileParams(
             popVariable(sameVariableType(cx, cx.params[cx.sub][i], Head(cx.stack)),
                         FALSE),
             i + 1)

RECURSIVE ReconcileReturns(_, _)
ReconcileReturns(cx, i) ==
    IF i > Len(cx.returns[cx.sub]) \/ cx.status # "ok" THEN cx
    ELSE IF Len(cx.returns[cx.sub]) - i >= Len(cx.stack) THEN Undefined(cx)
    ELSE ReconcileReturns(
             sameVariableType(cx, cx.returns[cx.sub][i],
                              VarAt(cx, Len(cx.returns[cx.sub]) - i)),
             i + 1)

\* a Finished subroutine whose parameters are captured again on re-entry
ReconcileRecapturing(cx) ==
    ReconcileReturns(PopLoop([cx EXCEPT !.subStack = 0], Len(cx.params[cx.sub])), 1)

\* a Finished subroutine: only make the types congruent (lines 473-495)
Reconcile(cx) == ReconcileReturns(ReconcileParams(cx, 1), 1)

\* the context in which the first block is walked (lines 512-515)
EnterSubRoutine(c) ==
    [c EXCEPT !.block = EntryOf(c.sub), !.subStack = 0, !.subRETN = FALSE,
              !.returnStack = <<>>]

\* what the caller finds after the walk (lines 519-523)
LeaveSubRoutine(c, oldCtx) ==
    [oldCtx EXCEPT !.stack = c.returnStack,
                   !.subStack = @ - Len(params[oldCtx.sub])]

\* the epilogue of analyzeStackJSR (lines 660-662)
LeaveJSR(c, oldCtx) ==
    [oldCtx EXCEPT !.subStack = c.subStack, !.stack = c.stack]

\* an analysis that never notices a subroutine in progress
NeverInProgress(state) == FALSE

\* line 498: the subroutine is being analyzed further up the call chain
InProgress(state) == state = "Start"

\* a globals analysis that follows subroutine calls all the same
NeverIgnoresCalls(mode) == FALSE

\* line 645: the analysis of the globals ignores JSR
IgnoresCalls(mode) == mode = "Global"

Frame(kind, old, jsr, i) == [kind |-> kind, old |-> old, jsr |-> jsr, i |-> i]

\* analyzeStackJSR, up to the point where the callee's first block is entered
analyzeStackJSR ==
    /\ pc = "instr"
    /\ \E ins \in Fetch :
         /\ ins.opcode = "JSR"
         /\ LET callee == [ctx EXCEPT !.sub = SubOf(ins.branch)]
            IN  IF IgnoresCalls(ctx.mode)
                  THEN Step(ins, Cx(ctx))
                ELSE IF subState[callee.sub] = "Finished"
                  THEN LET r == Reconcile(Cx(callee))
                       IN  Step(ins, CtxOf(LeaveJSR(r, ctx)) @@ r)
                ELSE IF InProgress(subState[callee.sub])
                  THEN /\ code' = Recorded(ins)
                       /\ pc' = "error"
                       /\ err' = [msg |-> "Recursion detected in subroutine",
                                  address |-> SubAddress(callee.sub)]
                       /\ UNCHANGED <<variables, ctx, globals, subState, blockState,
                                      params, returns, closed, children, frames,
                                      child, family, earlier, calls, walks, dupLog>>
                ELSE /\ code' = Recorded(ins)
                     /\ subState' = [subState EXCEPT ![callee.sub] = "Start"]
                     /\ frames' = <<Frame("jsr", callee, ctx, 0)>> \o frames
                     /\ ctx' = EnterSubRoutine(callee)
                     /\ pc' = "block"
                     /\ UNCHANGED <<variables, globals, blockState, params, returns,
                                    closed, children, child, err, family, earlier, calls,
                                    walks, dupLog>>

\* the end of analyzeSubRoutineStack(ctx) called from analyzeStackJSR
SubRoutineReturn ==
    /\ pc = "return"
    /\ frames # <<>> /\ Head(frames).kind = "jsr"
    /\ LET f == Head(frames)
           c == LeaveSubRoutine(ctx, f.old)
       IN  /\ ctx' = [LeaveJSR(c, f.jsr) EXCEPT !.instruction = @ + 1]
           /\ subState' = [subState EXCEPT ![f.old.sub] = "Finished"]
           /\ variables' = fixupDuplicateTypes(variables)
           /\ frames' = Tail(frames)
           /\ pc' = "instr"
    /\ UNCHANGED <<globals, blockState, params, returns, code, closed, children,
                   child, err, family, earlier, calls, walks, dupLog>>

\* n times pushVariable(kTypeAny), written out: the k-th push creates the
\* variable after the k - 1 earlier ones and puts it in front of them
DummyFrame(cx, n) ==
    LET first == Len(cx.variables)
    IN  [cx EXCEPT
           !.variables = @ \o [k \in 1..n |->
               [id |-> first + k - 1, type |-> "Any", use |-> "Unknown",
                creator |-> InstructionOf(cx), readers |-> <<>>, writers |-> <<>>,
                duplicates |-> <<>>]],
           !.stack = [k \in 1..n |-> first + n - k] \o @,
           !.subStack = @ + n]

\* analyzeGlobals / analyzeSubRoutineStack(sub, variables, game, globals)
TopLevel(mode, s, g) ==
    /\ pc = "idle"
    /\ calls < MaxCalls
    /\ <<mode, s, g>> \in Tops(calls + 1)
    /\ calls' = calls + 1
    /\ LET cx == DummyFrame(Cx(NewContext(mode, s, g)), kDummyStackFrameSize)
       IN  IF subState[s] = "Finished"
             THEN LET r == Reconcile(cx)
                  IN  /\ Store(r)
                      /\ ctx' = CtxOf(r)
                      /\ pc' = IF r.status = "ub" THEN "ub" ELSE "idle"
                      /\ UNCHANGED <<subState, frames, err>>
           ELSE IF InProgress(subState[s])
             THEN /\ Store(cx)
                  /\ ctx' = CtxOf(cx)
                  /\ pc' = "error"
                  /\ err' = [msg |-> "Recursion detected in subroutine",
                             address |-> SubAddress(s)]
                  /\ UNCHANGED <<subState, frames>>
           ELSE /\ Store(cx)
                /\ subState' = [subState EXCEPT ![s] = "Start"]
                /\ frames' = <<Frame("top", CtxOf(cx), CtxOf(cx), 0)>> \o frames
                /\ ctx' = EnterSubRoutine(CtxOf(cx))
                /\ pc' = "block"
                /\ UNCHANGED err
    /\ UNCHANGED <<blockState, code, closed, children, child, family, earlier, walks>>

analyzeGlobals ==
    /\ pc = "idle"
    /\ \E s \in Subs : TopLevel("Global", s, TRUE)

analyzeSubRoutineStack ==
    /\ pc = "idle"
    /\ \E s \in Subs, g \in BOOLEAN : TopLevel("SubRoutine", s, g)

\* the end of analyzeSubRoutineStack(ctx) called from the driver's entry points
TopLevelReturn ==
    /\ pc = "return"
    /\ frames # <<>> /\ Head(frames).kind = "top"
    /\ ctx' = LeaveSubRoutine(ctx, Head(frames).old)
    /\ subState' = [subState EXCEPT ![Head(frames).old.sub] = "Finished"]
    /\ variables' = fixupDuplicateTypes(variables)
    /\ frames' = Tail(frames)
    /\ pc' = "idle"
    /\ UNCHANGED <<globals, blockState, params, returns, code, closed, children,
                   child, err, family, earlier, calls, walks, dupLog>>

----------------------------------------------------------------------------
(* analyzeBlockStack(ctx). *)

\* lines 536-543: memoisation, recursion check, start of the walk
BlockEnter ==
    /\ pc = "block"
    /\ IF blockState[ctx.block] = "Finished"
         THEN /\ pc' = "return"
              /\ UNCHANGED <<blockState, ctx, err, walks>>
       ELSE IF blockState[ctx.block] = "Start"
         THEN /\ pc' = "error"
              /\ err' = [msg |-> "Recursion detected in block",
                         address |-> BlockAddress(ctx.block)]
              /\ UNCHANGED <<blockState, ctx, walks>>
       ELSE /\ blockState' = [blockState EXCEPT ![ctx.block] = "Start"]
            /\ ctx' = [ctx EXCEPT !.instruction = 1]
            /\ walks' = [walks EXCEPT ![ctx.block] = @ + 1]
            /\ pc' = "instr"
            /\ UNCHANGED err
    /\ UNCHANGED <<variables, globals, subState, params, returns, code, closed,
                   children, frames, child, family, earlier, calls, dupLog>>

\* a block left in state Start while its successors are walked
BlockLeftStarted(states, b) == states

\* a walk that resets the block it has just walked
BlockForgotten(states, b) == [states EXCEPT ![b] = "None"]

\* line 560: the block is marked before its successors are walked
BlockWalked(states, b) == [states EXCEPT ![b] = "Finished"]

\* the instruction loop is over; the block's successors are known
BlockFinish ==
    /\ pc = "instr"
    /\ ctx.instruction > Len(code[ctx.block])
    /\ \E es \in Family(family).edges[ctx.block] :
         /\ ctx.block \in closed => es = children[ctx.block]
         /\ children' = [children EXCEPT ![ctx.block] = es]
    /\ closed' = closed \cup {ctx.block}
    /\ blockState' = BlockWalked(blockState, ctx.block)
    /\ ctx' = [ctx EXCEPT !.instruction = 0]
    /\ child' = 1
    /\ pc' = "children"
    /\ UNCHANGED <<variables, globals, subState, params, returns, code, frames,
                   err, family, earlier, calls, walks, dupLog>>

\* lines 567-569: edges into subroutines and STORESTATEs are not followed
SkipChild ==
    /\ pc = "children"
    /\ child <= Len(children[ctx.block])
    /\ children[ctx.block][child].type \in {"FunctionCall", "StoreState"}
    /\ child' = child + 1
    /\ UNCHANGED <<variables, ctx, globals, subState, blockState, params, returns,
                   code, closed, children, frames, pc, err, family, earlier, calls, walks,
                   dupLog>>

\* lines 573-579: walk a successor on a copy of the stack
RecurseChild ==
    /\ pc = "children"
    /\ child <= Len(children[ctx.block])
    /\ children[ctx.block][child].type \notin {"FunctionCall", "StoreState"}
    /\ frames' = <<Frame("block", ctx, ctx, child)>> \o frames
    /\ ctx' = [ctx EXCEPT !.block = children[ctx.block][child].block]
    /\ pc' = "block"
    /\ UNCHANGED <<variables, globals, subState, blockState, params, returns, code,
                   closed, children, child, err, family, earlier, calls, walks, dupLog>>

\* successors walked on the parent's own stack, not on a copy of it
ShareStack(c, oldCtx) ==
    [c EXCEPT !.block = oldCtx.block, !.instruction = oldCtx.instruction]

\* lines 580-586: back in the parent block after a successor was walked
MergeChild(c, oldCtx) ==
    [oldCtx EXCEPT !.subRETN = IF c.subRETN THEN TRUE ELSE @,
                   !.returnStack = IF c.returnStack # <<>> THEN c.returnStack ELSE @]

ChildReturn ==
    /\ pc = "return"
    /\ frames # <<>> /\ Head(frames).kind = "block"
    /\ ctx' = MergeChild(ctx, Head(frames).old)
    /\ child' = Head(frames).i + 1
    /\ frames' = Tail(frames)
    /\ pc' = "children"
    /\ UNCHANGED <<variables, globals, subState, blockState, params, returns, code,
                   closed, children, err, family, earlier, calls, walks, dupLog>>

\* line 588: all successors walked, analyzeBlockStack returns
BlockReturn ==
    /\ pc = "children"
    /\ child > Len(children[ctx.block])
    /\ pc' = "return"
    /\ UNCHANGED <<variables, ctx, globals, subState, blockState, params, returns,
                   code, closed, children, frames, child, err, family, earlier, calls, walks,
                   dupLog>>

----------------------------------------------------------------------------

\* no earlier run
NoRun == [done |-> FALSE, variables |-> <<>>, params |-> <<>>, returns |-> <<>>,
          code |-> <<>>, subState |-> <<>>, globals |-> <<>>, calls |-> 0,
          pc |-> "idle", err |-> [msg |-> "", address |-> 0]]

Init ==
    /\ variables = <<>>
    /\ ctx = NewContext("SubRoutine", 0, FALSE)
    /\ globals = <<>>
    /\ subState = [s \in Subs |-> "None"]
    /\ blockState = [b \in Blocks |-> "None"]
    /\ params = [s \in Subs |-> <<>>]
    /\ returns = [s \in Subs |-> <<>>]
    /\ code = [b \in Blocks |-> <<>>]
    /\ closed = {}
    /\ children = [b \in Blocks |-> <<>>]
    /\ frames = <<>>
    /\ child = 0
    /\ pc = "idle"
    /\ err = [msg |-> "", address |-> 0]
    /\ family \in Families
    /\ calls = 0
    /\ walks = [b \in Blocks |-> 0]
    /\ dupLog = {}
    /\ earlier = NoRun

\* The analyzer started again on the input of a run that has ended: the
\* graph stays (the instructions met so far, the blocks' ends and edges), all
\* block and subroutine states are reset, the variable space is empty and no
\* instruction holds a snapshot.
Unreached(i) == Static(i) @@ [stack |-> <<>>, subStack |-> 0, depth |-> -1]

Rerun ==
    /\ pc \in {"idle", "error"}
    /\ calls >= 1
    /\ ~earlier.done
    /\ earlier' = [done |-> TRUE, variables |-> variables, params |-> params,
                 returns |-> returns, code |-> code, subState |-> subState,
                 globals |-> globals, calls |-> calls, pc |-> pc, err |-> err]
    /\ variables' = <<>>
    /\ ctx' = NewContext("SubRoutine", 0, FALSE)
    /\ globals' = <<>>
    /\ subState' = [s \in Subs |-> "None"]
    /\ blockState' = [b \in Blocks |-> "None"]
    /\ params' = [s \in Subs |-> <<>>]
    /\ returns' = [s \in Subs |-> <<>>]
    /\ code' = [b \in Blocks |-> [i \in DOMAIN code[b] |-> Unreached(code[b][i])]]
    /\ frames' = <<>>
    /\ child' = 0
    /\ pc' = "idle"
    /\ err' = [msg |-> "", address |-> 0]
    /\ calls' = 0
    /\ walks' = [b \in Blocks |-> 0]
    /\ dupLog' = {}
    /\ UNCHANGED <<closed, children, family>>

\* the walkers every analysis runs through
Walk ==
    \/ TopLevelReturn
    \/ BlockEnter
    \/ BlockFinish
    \/ BlockReturn

\* following the successor edges of a block
Successors ==
    \/ SkipChild
    \/ RecurseChild
    \/ ChildReturn

\* following subroutine calls
Calls ==
    \/ analyzeStackJSR
    \/ SubRoutineReturn

Next ==
    \/ analyzeGlobals
    \/ analyzeSubRoutineStack
    \/ Walk
    \/ Successors
    \/ Calls
    \/ Push
    \/ Pop
    \/ RETN
    \/ CPTOPSP
    \/ CPDOWNSP
    \/ UnArithm
    \/ Cond
    \/ SAVEBP
    \/ Action
    \/ Destructs
    \/ Bool
    \/ Eq
    \/ Shift
    \/ BinArithm
    \/ RESTOREBP
    \/ ModifySP
    \/ ModifyBP
    \/ CPTOPBP
    \/ CPDOWNBP
    \/ Rerun
    \/ NoHandler

Spec == Init /\ [][Next]_vars

\* callers that push arguments and placeholders, callees that capture them
InitCalls == Init /\ family = "calls"

NextCalls ==
    \/ analyzeSubRoutineStack
    \/ Walk
    \/ Calls
    \/ Push
    \/ Pop
    \/ RETN
    \/ CPDOWNSP

SpecCalls == InitCalls /\ [][NextCalls]_vars

\* pushes, copies and typed operators over duplicated variables
InitTypes == Init /\ family = "types"

NextTypes ==
    \/ analyzeSubRoutineStack
    \/ Walk
    \/ Calls
    \/ Push
    \/ RETN
    \/ CPTOPSP
    \/ CPDOWNSP
    \/ UnArithm

SpecTypes == InitTypes /\ [][NextTypes]_vars

\* subroutines calling each other and themselves
InitRecursion == Init /\ family = "recursion"

NextRecursion ==
    \/ analyzeSubRoutineStack
    \/ Walk
    \/ Calls
    \/ Push
    \/ RETN

\* the analysis is one sequential computation: it always takes its next step
SpecRecursion == InitRecursion /\ [][NextRecursion]_vars /\ WF_vars(NextRecursion)

\* one subroutine of three blocks with arbitrary edges, loops included
InitBlocks == Init /\ family = "blocks"

NextBlocks ==
    \/ analyzeSubRoutineStack
    \/ Walk
    \/ Successors
    \/ Push
    \/ Pop

SpecBlocks == InitBlocks /\ [][NextBlocks]_vars /\ WF_vars(NextBlocks)

\* declarations of globals closed by SAVEBP, in either mode
InitGlobals == Init /\ family = "globals"

NextGlobals ==
    \/ analyzeGlobals
    \/ analyzeSubRoutineStack
    \/ Walk
    \/ Push
    \/ Pop
    \/ SAVEBP

SpecGlobals == InitGlobals /\ [][NextGlobals]_vars

\* the _global routine with calls into subroutines among its declarations
InitInert == Init /\ family = "inert"

NextInert ==
    \/ analyzeGlobals
    \/ Walk
    \/ analyzeStackJSR
    \/ Push
    \/ Pop
    \/ SAVEBP

SpecInert == InitInert /\ [][NextInert]_vars

\* calls of engine functions on pushed arguments
InitAction == Init /\ family = "action"

NextAction ==
    \/ analyzeSubRoutineStack
    \/ Walk
    \/ Push
    \/ Action

SpecAction == InitAction /\ [][NextAction]_vars

\* the same script analysed twice
InitRerun == Init /\ family = "rerun"

NextRerun ==
    \/ analyzeSubRoutineStack
    \/ Walk
    \/ Calls
    \/ Push
    \/ Pop
    \/ RETN
    \/ CPTOPSP
    \/ CPDOWNSP
    \/ UnArithm
    \/ Rerun

SpecRerun == InitRerun /\ [][NextRerun]_vars

\* well-formed and malformed operands of the copying, modifying and popping
\* opcodes
InitMalformed == Init /\ family = "malformed"

NextMalformed ==
    \/ analyzeGlobals
    \/ analyzeSubRoutineStack
    \/ Walk
    \/ Push
    \/ Pop
    \/ CPTOPSP
    \/ CPDOWNSP
    \/ CPTOPBP
    \/ CPDOWNBP
    \/ ModifySP
    \/ ModifyBP
    \/ SAVEBP
    \/ Destructs
    \/ Eq

SpecMalformed == InitMalformed /\ [][NextMalformed]_vars

\* consumers on a stack popped down to a few entries or to none
InitUnderrun == Init /\ family = "underrun"

NextUnderrun ==
    \/ analyzeSubRoutineStack
    \/ Walk
    \/ Pop
    \/ Eq
    \/ Bool
    \/ Shift
    \/ BinArithm
    \/ Cond
    \/ RESTOREBP
    \/ Destructs
    \/ Action

SpecUnderrun == InitUnderrun /\ [][NextUnderrun]_vars

\* typed operators on declared and on untyped variables
InitOperands == Init /\ family = "operands"

NextOperands ==
    \/ analyzeSubRoutineStack
    \/ Walk
    \/ Push
    \/ Bool
    \/ Shift
    \/ UnArithm
    \/ BinArithm
    \/ Cond
    \/ Action

SpecOperands == InitOperands /\ [][NextOperands]_vars

\* structures on the stack, destructed down to one of their parts
InitDestruct == Init /\ family = "destruct"

NextDestruct ==
    \/ analyzeSubRoutineStack
    \/ Walk
    \/ Push
    \/ Destructs

SpecDestruct == InitDestruct /\ [][NextDestruct]_vars

\* a subroutine whose entry block branches into two successors
InitBranches == Init /\ family = "branches"

NextBranches ==
    \/ analyzeSubRoutineStack
    \/ Walk
    \/ Successors
    \/ Calls
    \/ Push
    \/ Pop
    \/ RETN
    \/ CPDOWNSP

SpecBranches == InitBranches /\ [][NextBranches]_vars

\* a caller that calls the same subroutine again, with duplicates pending
InitReconcile == Init /\ family = "reconcile"

NextReconcile ==
    \/ analyzeSubRoutineStack
    \/ Walk
    \/ Calls
    \/ Push
    \/ Pop
    \/ RETN
    \/ CPTOPSP
    \/ CPDOWNSP

SpecReconcile == InitReconcile /\ [][NextReconcile]_vars

\* typed variables copied to the top, one or several at a time
InitCopies == Init /\ family = "copies"

NextCopies ==
    \/ analyzeSubRoutineStack
    \/ Walk
    \/ Push
    \/ CPTOPSP

SpecCopies == InitCopies /\ [][NextCopies]_vars

\* copies of one variable that are refined to different types
InitFixup == Init /\ family = "fixup"

NextFixup ==
    \/ analyzeSubRoutineStack
    \/ Walk
    \/ Calls
    \/ Pop
    \/ RETN
    \/ CPTOPSP
    \/ UnArithm

SpecFixup == InitFixup /\ [][NextFixup]_vars

\* offsets at and around the end of the stack and of the globals
InitBounds == Init /\ family = "bounds"

NextBounds ==
    \/ analyzeGlobals
    \/ analyzeSubRoutineStack
    \/ Walk
    \/ Push
    \/ SAVEBP
    \/ CPTOPSP
    \/ CPDOWNSP
    \/ ModifySP
    \/ ModifyBP
    \/ CPTOPBP
    \/ CPDOWNBP

SpecBounds == InitBounds /\ [][NextBounds]_vars

\* a callee that writes into several slots of its caller, called twice
InitReturns == Init /\ family = "returns"

NextReturns ==
    \/ analyzeSubRoutineStack
    \/ Walk
    \/ Calls
    \/ Push
    \/ Pop
    \/ RETN
    \/ CPDOWNSP

SpecReturns == InitReturns /\ [][NextReturns]_vars

\* the driver sequence: the globals pass over the initializer subroutine 2,
\* then the walk of the entry subroutine 1 with the globals it produced
InitDriver == Init /\ family = "driver"

NextDriver ==
    \/ analyzeGlobals
    \/ analyzeSubRoutineStack
    \/ Walk
    \/ Calls
    \/ Push
    \/ SAVEBP
    \/ RETN

SpecDriver == InitDriver /\ [][NextDriver]_vars

----------------------------------------------------------------------------
(* Vocabulary of the properties. *)

\* the entries of the dummy stack frame: the only variables without a creator
IsDummy(id) == variables[id + 1].creator = <<0, 0>>

\* the variable the instruction i of block b created
CreatedBy(b, i) ==
    CHOOSE id \in 0..(Len(variables) - 1) : variables[id + 1].creator = <<b, i>>

Opcodes(b) == [i \in DOMAIN code[b] |-> code[b][i].opcode]
Program(b) == [i \in DOMAIN code[b] |-> Static(code[b][i])]

\* the instruction j of block b, a JSR, has returned and nothing ran since
JustReturned(b, j) ==
    /\ pc = "instr"
    /\ ctx.block = b
    /\ ctx.instruction = j + 1
    /\ j \in DOMAIN code[b]
    /\ code[b][j].opcode = "JSR"

\* the instruction j of block b is the first JSR the analysis came across
FirstCall(b, j) ==
    /\ calls = 1
    /\ b = 1
    /\ \A i \in 1..(j - 1) : code[b][i].opcode # "JSR"

----------------------------------------------------------------------------
(* C7: parameter capture.  A caller pushes k >= 1 values and calls a       *)
(* subroutine not analysed before, whose entry block is MOVSP -4k, RETN.   *)
(* Then the callee's params are exactly the k pushed variables, top-down;  *)
(* the snapshot recorded for the MOVSP is empty; and the caller's stack    *)
(* depth and subStack are both k less than just before the JSR.            *)

PushesThenCalls(b, j, k) ==
    /\ JustReturned(b, j)
    /\ FirstCall(b, j)
    /\ j > k
    /\ \A i \in 1..k : code[b][j - i].opcode = "RSADD"
    /\ Program(code[b][j].branch) = <<OpA("MOVSP", <<-4 * k>>), Op("RETN")>>

C7_ParameterCapture ==
    \A j \in DOMAIN code[1], k \in 1..2 :
        PushesThenCalls(1, j, k) =>
            LET callee == code[1][j].branch
            IN  /\ params[SubOf(callee)] = [i \in 1..k |-> CreatedBy(1, j - i)]
                /\ code[callee][1].stack = <<>>
                /\ Len(ctx.stack) = code[1][j].depth - k
                /\ ctx.subStack = code[1][j].subStack - k

C7_Witness ==
    \E j \in DOMAIN code[1] : PushesThenCalls(1, j, 2) /\ Len(params[2]) = 2

----------------------------------------------------------------------------
(* C8: return capture.  A CPDOWNSP of one entry, run before the first RETN *)
(* of the subroutine, whose destination index is >= subStack, records the  *)
(* destination variable in sub.returns at index stack_index - subStack and *)
(* gives it the source's type; the first RETN removes the leading          *)
(* min(|params|, |returns|) entries of returns.  A parameterless callee    *)
(* that copies a fresh Int into the caller's placeholder, pops its local   *)
(* and returns ends with returns = [placeholder], of type Int, and the     *)
(* placeholder is on top of the caller's stack after the JSR.              *)

\* this step runs, without an exception, a newly met instruction with opcode op
Executes(op) ==
    /\ pc = "instr"
    /\ pc' = "instr"
    /\ Len(code'[ctx.block]) = Len(code[ctx.block]) + 1
    /\ code'[ctx.block][ctx.instruction].opcode = op

CopyDownRecordsReturn ==
    LET ins == code'[ctx.block][ctx.instruction]
        idx == StackIndex(ins.args[1])
        src == ctx.stack[1]
        dst == ctx.stack[idx + 1]
        rs  == returns'[ctx.sub]
    IN  (/\ Executes("CPDOWNSP")
         /\ ins.args[2] = 4
         /\ ~ctx.subRETN
         /\ ULeq(ctx.subStack, idx))
        => /\ Len(rs) >= idx - ctx.subStack + 1
           /\ rs[idx - ctx.subStack + 1] = dst
           /\ \A k \in DOMAIN returns[ctx.sub] :
                  k # idx - ctx.subStack + 1 => rs[k] = returns[ctx.sub][k]
           /\ variables'[dst + 1].type = variables'[src + 1].type
           /\ variables[src + 1].type # "Any"
                  => variables'[dst + 1].type = variables[src + 1].type

FirstRETNTrimsReturns ==
    (Executes("RETN") /\ ~ctx.subRETN)
        => LET n == Min(Len(params[ctx.sub]), Len(returns[ctx.sub]))
           IN  returns'[ctx.sub] = SubSeq(returns[ctx.sub], n + 1, Len(returns[ctx.sub]))

PlaceholderThenCall(b, j) ==
    /\ JustReturned(b, j)
    /\ FirstCall(b, j)
    /\ j > 1
    /\ code[b][j - 1].opcode = "RSADD"
    /\ Program(code[b][j].branch) =
           <<RSADDInt, OpA("CPDOWNSP", <<-8, 4>>), OpA("MOVSP", <<-4>>), Op("RETN")>>

PlaceholderReturned ==
    \A j \in DOMAIN code[1] :
        PlaceholderThenCall(1, j) =>
            LET placeholder == CreatedBy(1, j - 1)
            IN  /\ returns[SubOf(code[1][j].branch)] = <<placeholder>>
                /\ variables[placeholder + 1].type = "Int"
                /\ ctx.stack # <<>> /\ Head(ctx.stack) = placeholder

C8_ReturnCapture ==
    /\ [][CopyDownRecordsReturn /\ FirstRETNTrimsReturns]_vars
    /\ []PlaceholderReturned

C8_Witness ==
    \E j \in DOMAIN code[1] : PlaceholderThenCall(1, j) /\ Len(returns[2]) = 1

----------------------------------------------------------------------------
(* C3: once a subroutine is Finished, entering it again only reconciles    *)
(* types: it stays Finished, its params and returns keep their length and  *)
(* their elements, and no block that was walked is walked again nor has    *)
(* any of its instructions run again.                                      *)

FinishedIsFinal ==
    /\ \A s \in Subs :
          subState[s] = "Finished" =>
              /\ subState'[s] = "Finished"
              /\ params'[s] = params[s]
              /\ returns'[s] = returns[s]
    /\ \A b \in Blocks :
          blockState[b] = "Finished" =>
              /\ blockState'[b] = "Finished"
              /\ walks'[b] = walks[b]
              /\ code'[b] = code[b]

C3_FinishedOnlyReconciles == [][FinishedIsFinal]_vars

\* a second JSR into a subroutine with a parameter and a return has returned
C3_Witness ==
    \E i, j \in DOMAIN code[1] :
        /\ i < j
        /\ code[1][i].opcode = "JSR" /\ code[1][i].branch = 4
        /\ JustReturned(1, j) /\ code[1][j].branch = 4
        /\ Len(params[2]) >= 1 /\ Len(returns[2]) >= 1
        /\ Len(ctx.stack) = code[1][j].depth - Len(params[2])
        /\ walks[4] = 1

----------------------------------------------------------------------------
(* C6: snapshot locality.  The stack recorded on an instruction is the     *)
(* stack before its handler ran, cut to its top subStack entries: it is    *)
(* never longer than subStack and holds no entry from below the frame of   *)
(* the current subroutine, in particular none of the dummy frame.          *)

SnapshotIsTruncatedStack ==
    (pc = "instr" /\ Len(code'[ctx.block]) = Len(code[ctx.block]) + 1)
        => LET snap == code'[ctx.block][ctx.instruction].stack
           IN  /\ ULeq(Len(snap), ctx.subStack)
               /\ snap = SubSeq(ctx.stack, 1, Len(snap))

SnapshotsHoldOwnFrame ==
    \A b \in Blocks : \A i \in DOMAIN code[b] :
        \A k \in DOMAIN code[b][i].stack : ~IsDummy(code[b][i].stack[k])

C6_SnapshotLocality ==
    /\ [][SnapshotIsTruncatedStack]_vars
    /\ []SnapshotsHoldOwnFrame

----------------------------------------------------------------------------
(* C1: monotonic typing.  Over every step of the analysis (instructions,   *)
(* reconciliations, fixup passes) a variable whose type is concrete keeps  *)
(* that type: it neither takes another concrete type nor returns to Any.   *)

TypesOnlyRefine ==
    \A i \in DOMAIN variables :
        variables[i].type # "Any" =>
            /\ i \in DOMAIN variables'
            /\ variables'[i].type = variables[i].type

C1_MonotonicTyping == [][TypesOnlyRefine]_vars

----------------------------------------------------------------------------
(* C2: duplicate unification.  When a top-level analysis has completed     *)
(* normally, any two variables that a CPTOPSP ever recorded as duplicates  *)
(* of each other have the same type.                                       *)

Completed == pc = "idle" /\ calls >= 1

C2_DuplicateUnification ==
    Completed =>
        \A d \in dupLog : variables[d[1] + 1].type = variables[d[2] + 1].type

----------------------------------------------------------------------------
(* C4: in subroutine mode a JSR whose target subroutine is in progress,    *)
(* directly or through a chain of callees, aborts the analysis with the    *)
(* error "Recursion detected in subroutine" naming the target's address;   *)
(* no block is entered again, and the analysis comes to an end.            *)

RecursiveCallAborts ==
    pc = "instr" => \A ins \in Fetch :
        (/\ pc = "instr"
         /\ ctx.mode = "SubRoutine"
         /\ ins.opcode = "JSR"
         /\ subState[SubOf(ins.branch)] = "Start"
         /\ code' = Recorded(ins))
        => /\ pc' = "error"
           /\ err' = [msg |-> "Recursion detected in subroutine",
                      address |-> SubAddress(SubOf(ins.branch))]
           /\ walks' = walks
           /\ blockState' = blockState
           /\ subState' = subState

Terminated == pc \in {"error", "ub"} \/ Completed

C4_RecursionDetected ==
    /\ [][RecursiveCallAborts]_vars
    /\ [](\A b \in Blocks : walks[b] <= 1)
    /\ <>Terminated

\* subroutine 1 called 2, 2 called 3, and 3 called 1 again
C4_Witness ==
    /\ pc = "error"
    /\ err = [msg |-> "Recursion detected in subroutine", address |-> SubAddress(1)]
    /\ Len(frames) = 3
    /\ ctx.sub = 3

----------------------------------------------------------------------------
(* C5: on a control flow graph with cycles and without JSR the block       *)
(* walker comes to an end, raises no recursion error, walks each block and *)
(* runs its instructions at most once, and, when it completes, has every   *)
(* block reachable over edges other than FunctionCall and StoreState in    *)
(* state Finished.                                                         *)

Followed(b) ==
    {children[b][k].block :
        k \in {k \in DOMAIN children[b] :
                  children[b][k].type \notin {"FunctionCall", "StoreState"}}}

Grow(S) == S \cup UNION {Followed(b) : b \in S}

ReachableFrom(S) == Grow(Grow(Grow(Grow(S))))

NoRecursionError ==
    pc = "error" => err.msg \notin {"Recursion detected in block",
                                   "Recursion detected in subroutine"}

WalkedOnce ==
    \A b \in Blocks :
        /\ walks[b] <= 1
        /\ blockState[b] = "Finished" => code'[b] = code[b]

ReachableFinished ==
    Completed => \A b \in ReachableFrom({EntryOf(1)}) : blockState[b] = "Finished"

C5_BlockWalkerTerminates ==
    /\ [](NoRecursionError /\ ReachableFinished)
    /\ [][WalkedOnce]_vars
    /\ <>Terminated

\* a completed walk of a graph in which a block with code lies on a cycle
C5_Witness ==
    /\ Completed
    /\ \E b \in ReachableFrom({EntryOf(1)}) :
          /\ b \in ReachableFrom(Followed(b))
          /\ code[b] # <<>>
          /\ b # EntryOf(1)

----------------------------------------------------------------------------
(* C9: in globals mode, a SAVEBP run with empty globals on a stack of n    *)
(* entries above the intact 32-entry dummy frame makes the globals stack   *)
(* those n entries, top to bottom, none of them a dummy, marks each of     *)
(* them as Global, and pushes one new Int.  Five RSADDs of Int, Float,     *)
(* String, Object, Int followed by SAVEBP give five globals of these types.*)

DummyFrameIntact(stack) ==
    /\ Len(stack) >= kDummyStackFrameSize
    /\ \A k \in 1..kDummyStackFrameSize :
          IsDummy(stack[Len(stack) - kDummyStackFrameSize + k])

SAVEBPCapturesGlobals ==
    pc = "instr" => \A ins \in Fetch :
        (/\ pc = "instr"
         /\ ctx.mode = "Global"
         /\ ins.opcode = "SAVEBP"
         /\ globals = <<>>
         /\ DummyFrameIntact(ctx.stack)
         /\ code' = Recorded(ins))
        => LET n == Len(ctx.stack) - kDummyStackFrameSize
           IN  /\ pc' = "instr"
               /\ globals' = SubSeq(ctx.stack, 1, n)
               /\ \A k \in 1..n :
                     /\ ~IsDummy(globals'[k])
                     /\ variables'[globals'[k] + 1].use = "Global"
               /\ Len(variables') = Len(variables) + 1
               /\ ctx'.stack = <<Len(variables)>> \o ctx.stack
               /\ variables'[Len(variables')].type = "Int"

FiveDeclarations ==
    <<RSADDInt, RSADDFloat, OpT("RSADD", "kInstTypeString"),
      OpT("RSADD", "kInstTypeObject"), RSADDInt, Op("SAVEBP")>>

FiveGlobals ==
    (ctx.mode = "Global" /\ Program(1) = FiveDeclarations /\ pc = "instr")
        => /\ Len(globals) = 5
           /\ [k \in 1..5 |-> variables[globals[k] + 1].type]
                 = <<"Int", "Object", "String", "Float", "Int">>
           /\ \A k \in 1..5 : variables[globals[k] + 1].use = "Global"
           /\ Len(ctx.stack) = kDummyStackFrameSize + 6
           /\ variables[Head(ctx.stack) + 1].type = "Int"

C9_SAVEBPGlobals ==
    /\ [][SAVEBPCapturesGlobals]_vars
    /\ []FiveGlobals

C9_Witness ==
    /\ ctx.mode = "Global" /\ pc = "instr"
    /\ Program(1) = FiveDeclarations /\ Len(globals) = 5

----------------------------------------------------------------------------
(* C10: SAVEBP protocol.  A SAVEBP run in subroutine mode, and within one  *)
(* globals analysis every SAVEBP after the first, however many globals     *)
(* the first one captured, raises an error and leaves the globals stack    *)
(* as it was.                                                              *)

SAVEBPOnlyOnce ==
    pc = "instr" => \A ins \in Fetch :
        (/\ pc = "instr"
         /\ ins.opcode = "SAVEBP"
         /\ code' = Recorded(ins)
         /\ \/ ctx.mode = "SubRoutine"
            \/ \E i \in DOMAIN code[ctx.block] :
                  i < ctx.instruction /\ code[ctx.block][i].opcode = "SAVEBP")
        => /\ pc' = "error"
           /\ globals' = globals

C10_SAVEBPProtocol == [][SAVEBPOnlyOnce]_vars

----------------------------------------------------------------------------
(* C11: in globals mode a JSR is inert.  The step that runs it leaves the  *)
(* operand stack, subStack, the globals stack and the variable space as    *)
(* they were, changes no subroutine's state, params or returns, and walks  *)
(* no block: no block other than the one under analysis is ever entered.   *)

JSRIsInert ==
    pc = "instr" => \A ins \in Fetch :
        (/\ ctx.mode = "Global"
         /\ ins.opcode = "JSR"
         /\ code' = Recorded(ins))
        => /\ pc' = "instr"
           /\ ctx'.stack = ctx.stack
           /\ ctx'.subStack = ctx.subStack
           /\ ctx'.sub = ctx.sub /\ ctx'.block = ctx.block
           /\ globals' = globals
           /\ variables' = variables
           /\ subState' = subState
           /\ params' = params
           /\ returns' = returns
           /\ blockState' = blockState
           /\ walks' = walks

OnlyGlobalsWalked ==
    ctx.mode = "Global" =>
        \A b \in Blocks : b # EntryOf(1) => walks[b] = 0 /\ code[b] = <<>>

C11_JSRInertInGlobals ==
    /\ [][JSRIsInert]_vars
    /\ []OnlyGlobalsWalked

\* a JSR into another subroutine has just run, after globals were captured
C11_Witness ==
    /\ ctx.mode = "Global" /\ pc = "instr"
    /\ globals # <<>>
    /\ \E j \in DOMAIN code[1] :
          /\ ctx.instruction = j + 1
          /\ code[1][j].opcode = "JSR" /\ code[1][j].branch = EntryOf(2)
          /\ subState[2] = "None"

----------------------------------------------------------------------------
(* C12: EngineCall(func, param_count).  With param_count above the declared    *)
(* parameter count the instruction raises an error.  Otherwise, when it    *)
(* succeeds, it has popped one entry per declared parameter among the      *)
(* first param_count that is neither Vector nor ScriptState, three per     *)
(* Vector and none per ScriptState, and has pushed nothing for a Void      *)
(* return, three new Floats for a Vector return and one new variable of    *)
(* the return type otherwise.  On three pushed floats, a Vector-returning  *)
(* function without parameters leaves three more Floats on the stack and a *)
(* snapshot of exactly the three pushed Floats.                            *)

DeclaredEntries(type) ==
    CASE type = "Vector" -> 3 [] type = "ScriptState" -> 0 [] OTHER -> 1

RECURSIVE EntriesOf(_, _)
EntriesOf(types, n) ==
    IF n = 0 THEN 0 ELSE EntriesOf(types, n - 1) + DeclaredEntries(types[n])

ReturnedTypes(type) ==
    CASE type = "Void"   -> <<>>
      [] type = "Vector" -> <<"Float", "Float", "Float">>
      [] OTHER           -> <<type>>

ActionEffect ==
    pc = "instr" => \A ins \in Fetch :
        (ins.opcode = "ACTION" /\ code' = Recorded(ins))
        => LET decl   == Functions[ins.args[1] + 1]
               n      == ins.args[2]
               pops   == EntriesOf(decl.params, n)
               pushed == ReturnedTypes(decl.return)
           IN  /\ pc' # "ub"
               /\ n > Len(decl.params) =>
                     /\ pc' = "error"
                     /\ ctx'.stack = ctx.stack /\ variables' = variables
               /\ (n <= Len(decl.params) /\ pc' = "instr") =>
                     /\ pops <= Len(ctx.stack)
                     /\ Len(variables') = Len(variables) + Len(pushed)
                     /\ ctx'.stack =
                          [k \in 1..Len(pushed) |-> Len(variables') - k]
                             \o SubSeq(ctx.stack, pops + 1, Len(ctx.stack))
                     /\ ctx'.subStack = ctx.subStack - pops + Len(pushed)
                     /\ \A k \in 1..Len(pushed) :
                           /\ variables'[Len(variables) + k].type = pushed[k]
                           /\ variables'[Len(variables) + k].use = "Local"

VectorOfThreeFloats ==
    (/\ Program(1) = <<RSADDFloat, RSADDFloat, RSADDFloat, EngineCall(0, 0)>>
     /\ pc = "instr" /\ ctx.instruction = 5)
        => /\ Len(ctx.stack) = kDummyStackFrameSize + 6
           /\ \A k \in 1..6 : variables[ctx.stack[k] + 1].type = "Float"
           /\ SubSeq(ctx.stack, 4, 6) = code[1][4].stack
           /\ code[1][4].stack = <<CreatedBy(1, 3), CreatedBy(1, 2), CreatedBy(1, 1)>>

C12_ActionEffect ==
    /\ [][ActionEffect]_vars
    /\ []VectorOfThreeFloats

C12_Witness ==
    /\ Program(1) = <<RSADDFloat, RSADDFloat, RSADDFloat, EngineCall(0, 0)>>
    /\ pc = "instr" /\ ctx.instruction = 5
    /\ Len(ctx.stack) = kDummyStackFrameSize + 6

----------------------------------------------------------------------------
(* C13: a DESTRUCT whose kept range is the whole destructed region         *)
(* (dont_remove_offset = 0, dont_remove_size = stack_size, stack_size a    *)
(* non-negative multiple of 4 within the stack's depth) changes nothing:   *)
(* the stack holds the same variables in the same order and subStack is    *)
(* what it was.                                                            *)

DestructAllKept ==
    pc = "instr" => \A ins \in Fetch :
        (/\ ins.opcode = "DESTRUCT"
         /\ code' = Recorded(ins)
         /\ ins.args[2] = 0
         /\ ins.args[3] = ins.args[1]
         /\ ins.args[1] >= 0 /\ ins.args[1] % 4 = 0
         /\ ins.args[1] \div 4 <= Len(ctx.stack))
        => /\ pc' = "instr"
           /\ ctx'.stack = ctx.stack
           /\ ctx'.subStack = ctx.subStack

C13_DestructNoOp == [][DestructAllKept]_vars

\* a DESTRUCT keeping all of its three entries has run on pushed variables
C13_Witness ==
    /\ pc = "instr" /\ ctx.instruction = 3
    /\ Program(1) = <<RSADDInt, Destruct(12, 0, 12)>>
    /\ Len(ctx.stack) = kDummyStackFrameSize + 1

----------------------------------------------------------------------------
(* C14: DESTRUCT(stack_size, dont_remove_offset, dont_remove_size) removes *)
(* the top stack_size/4 entries except those whose position lies in        *)
(* [dont_remove_offset/4, (dont_remove_offset + dont_remove_size)/4); the  *)
(* survivors become the new top in their original order and the entries    *)
(* below the region are untouched.  As stated, positions are counted from  *)
(* the current top (C14_DestructFromTop); as amended, from the deepest     *)
(* entry of the destructed region (C14_DestructFromRegionStart).           *)

RECURSIVE SurvivorsFrom(_, _, _, _, _)
SurvivorsFrom(region, positions, lo, hi, i) ==
    IF i > Len(region) THEN <<>>
    ELSE (IF lo <= positions[i] /\ positions[i] < hi THEN <<region[i]>> ELSE <<>>)
            \o SurvivorsFrom(region, positions, lo, hi, i + 1)

\* the stack a DESTRUCT leaves when positions[i] is the position of the i-th
\* entry from the top
DestructLeaves(ins, positions) ==
    LET n      == ins.args[1] \div 4
        region == SubSeq(ctx.stack, 1, n)
        kept   == SurvivorsFrom(region, positions, ins.args[2] \div 4,
                                (ins.args[2] + ins.args[3]) \div 4, 1)
    IN  /\ pc' = "instr"
        /\ ctx'.stack = kept \o SubSeq(ctx.stack, n + 1, Len(ctx.stack))
        /\ ctx'.subStack = ctx.subStack - n + Len(kept)

WellFormedDestruct(ins) ==
    /\ ins.opcode = "DESTRUCT"
    /\ code' = Recorded(ins)
    /\ \A k \in 1..3 : ins.args[k] >= 0 /\ ins.args[k] % 4 = 0
    /\ ins.args[1] \div 4 <= Len(ctx.stack)

FromTop(n)         == [i \in 1..n |-> i - 1]
FromRegionStart(n) == [i \in 1..n |-> n - i]

C14_DestructFromTop ==
    [][pc = "instr" => \A ins \in Fetch :
          WellFormedDestruct(ins)
              => DestructLeaves(ins, FromTop(ins.args[1] \div 4))]_vars

C14_DestructFromRegionStart ==
    [][pc = "instr" => \A ins \in Fetch :
          WellFormedDestruct(ins)
              => DestructLeaves(ins, FromRegionStart(ins.args[1] \div 4))]_vars

\* of three entries the deepest one alone was kept and is now on top
C14_Witness ==
    /\ pc = "instr" /\ ctx.instruction = 4
    /\ Program(1) = <<RSADDInt, RSADDInt, Destruct(12, 0, 4)>>
    /\ Head(ctx.stack) = kDummyStackFrameSize - 1
    /\ Len(ctx.stack) = kDummyStackFrameSize

----------------------------------------------------------------------------
(* C15: CPTOPSP -4, 4 immediately followed by CPDOWNSP -8, 4 copies the    *)
(* fresh duplicate back onto its source.  Afterwards the source's type is  *)
(* the duplicate's type.  As stated, the pair leaves the stack as deep as  *)
(* it was before the CPTOPSP (C15_RoundTripKeepsDepth); as amended, the    *)
(* CPDOWNSP leaves the depth alone, so that the pair leaves the stack one  *)
(* entry deeper, the duplicate (C15_RoundTripKeepsDuplicate).              *)

CopyTop  == OpA("CPTOPSP", <<-4, 4>>)
CopyBack == OpA("CPDOWNSP", <<-8, 4>>)

\* the CPDOWNSP of the pair is the instruction being taken
RoundTripStep(ins) ==
    /\ Static(ins) = CopyBack
    /\ code' = Recorded(ins)
    /\ ctx.instruction > 1
    /\ Static(code[ctx.block][ctx.instruction - 1]) = CopyTop

DepthBeforeRoundTrip == code[ctx.block][ctx.instruction - 1].depth

SourceUnifiedWithDuplicate ==
    /\ pc' = "instr"
    /\ variables'[ctx'.stack[2] + 1].type = variables'[ctx'.stack[1] + 1].type
    /\ ctx'.stack[2] = ctx.stack[2]
    /\ ctx'.stack[1] = ctx.stack[1]

C15_RoundTripKeepsDepth ==
    [][pc = "instr" => \A ins \in Fetch :
          RoundTripStep(ins)
              => /\ SourceUnifiedWithDuplicate
                 /\ Len(ctx'.stack) = DepthBeforeRoundTrip]_vars

C15_RoundTripKeepsDuplicate ==
    [][pc = "instr" => \A ins \in Fetch :
          RoundTripStep(ins)
              => /\ SourceUnifiedWithDuplicate
                 /\ Len(ctx'.stack) = Len(ctx.stack)
                 /\ Len(ctx'.stack) = DepthBeforeRoundTrip + 1]_vars

\* the round trip has run on a Float declaration
C15_Witness ==
    /\ pc = "instr" /\ ctx.block = 1 /\ ctx.instruction = 4
    /\ Program(1) = <<RSADDFloat, CopyTop, CopyBack>>
    /\ Len(ctx.stack) = kDummyStackFrameSize + 2
    /\ variables[ctx.stack[1] + 1].type = "Float"
    /\ variables[ctx.stack[2] + 1].type = "Float"

----------------------------------------------------------------------------
(* C16: if a variable of type Any is duplicated by CPTOPSP and the         *)
(* duplicate is refined to a concrete type T before the top-level walk     *)
(* ends, whatever runs in between (calls of other subroutines included),   *)
(* then after the analysis the source has type T as well.                  *)

AnySourceFollowsDuplicate(d) ==
    (d[3] = "Any" /\ variables[d[2] + 1].type # "Any")
        => variables[d[1] + 1].type = variables[d[2] + 1].type

C16_DuplicateTyping ==
    (pc = "idle" /\ calls >= 1) => \A d \in dupLog : AnySourceFollowsDuplicate(d)

----------------------------------------------------------------------------
(* C17: two runs of the analyzer started from identical fresh inputs (the  *)
(* same graph, every block and subroutine state unvisited, an empty        *)
(* variable space) produce the same variables (count, ids, types), the     *)
(* same params and returns lists and the same per-instruction snapshots,   *)
(* and end the same way.  Runs that leave defined behaviour are not        *)
(* repeated.                                                               *)

\* the second run has come as far as the first one went
SecondRunEnded ==
    /\ earlier.done
    /\ \/ pc = "error"
       \/ pc = "idle" /\ calls = earlier.calls /\ earlier.pc = "idle"

SameAsFirstRun ==
    /\ Len(variables) = Len(earlier.variables)
    /\ \A i \in DOMAIN variables :
         /\ variables[i].id = earlier.variables[i].id
         /\ variables[i].type = earlier.variables[i].type
    /\ variables = earlier.variables
    /\ params = earlier.params
    /\ returns = earlier.returns
    /\ code = earlier.code
    /\ subState = earlier.subState
    /\ globals = earlier.globals
    /\ pc = earlier.pc /\ err = earlier.err /\ calls = earlier.calls

----------------------------------------------------------------------------
(* C18: malformed operands.  CPTOPSP, CPDOWNSP, CPTOPBP, CPDOWNBP, DECSP,  *)
(* INCSP, DECBP and INCBP with an offset above -4 or not a multiple of 4,  *)
(* the copy opcodes with a negative or non-multiple-of-4 size, MOVSP with  *)
(* a positive or non-multiple-of-4 argument, and DESTRUCT or EQ/NEQ with a *)
(* negative or non-multiple-of-4 argument raise an error at the            *)
(* instruction's address, and the failed instruction changes neither the   *)
(* stack, subStack, the globals stack, the variable space nor any          *)
(* subroutine's params and returns.                                        *)

Misaligned(x) == x % 4 # 0

MalformedOperand(ins) ==
    CASE ins.opcode \in {"CPTOPSP", "CPDOWNSP", "CPTOPBP", "CPDOWNBP"} ->
           \/ ins.args[1] > -4 \/ Misaligned(ins.args[1])
           \/ ins.args[2] < 0  \/ Misaligned(ins.args[2])
      [] ins.opcode \in {"DECSP", "INCSP", "DECBP", "INCBP"} ->
           ins.args[1] > -4 \/ Misaligned(ins.args[1])
      [] ins.opcode = "MOVSP" ->
           ins.args[1] > 0 \/ Misaligned(ins.args[1])
      [] ins.opcode = "DESTRUCT" ->
           \E k \in 1..3 : ins.args[k] < 0 \/ Misaligned(ins.args[k])
      [] ins.opcode \in {"EQ", "NEQ"} ->
           ins.args # <<>> /\ (ins.args[1] < 0 \/ Misaligned(ins.args[1]))
      [] OTHER -> FALSE

FailsUnchanged ==
    /\ pc' = "error"
    /\ err'.address = InstrAddress(ctx.block, ctx.instruction)
    /\ ctx'.stack = ctx.stack
    /\ ctx'.subStack = ctx.subStack
    /\ UNCHANGED <<globals, variables, params, returns>>

C18_MalformedOperands ==
    [][pc = "instr" => \A ins \in Fetch :
          (code' = Recorded(ins) /\ MalformedOperand(ins)) => FailsUnchanged]_vars

\* a DESTRUCT of six bytes has failed on a stack holding a declared variable
C18_Witness ==
    /\ pc = "error"
    /\ err.address = InstrAddress(1, 2)
    /\ Program(1) = <<RSADDInt, Destruct(6, 0, 0)>>
    /\ Len(ctx.stack) = kDummyStackFrameSize + 1
    /\ Len(variables) = kDummyStackFrameSize + 1

----------------------------------------------------------------------------
(* C19: stack underrun.  Whenever a handler that consumes stack entries    *)
(* (MOVSP, EQ/NEQ and the relational opcodes, the Bool and shift opcodes,  *)
(* binary arithmetic with its Vector forms, DESTRUCT, JZ/JNZ, RESTOREBP,   *)
(* ACTION) needs more entries than the stack holds, the analysis raises a  *)
(* stack-underrun error, and it never pops from or reads past the end of   *)
(* the stack.                                                              *)

\* the entries a well-formed instruction consumes
EntriesNeeded(ins) ==
    CASE ins.opcode = "MOVSP" -> (0 - ins.args[1]) \div 4
      [] ins.opcode \in {"EQ", "NEQ", "GEQ", "GT", "LT", "LEQ"} ->
           2 * (IF ins.args = <<>> THEN 1 ELSE ins.args[1] \div 4)
      [] ins.opcode \in {"LOGAND", "LOGOR", "INCOR", "EXCOR", "BOOLAND",
                         "SHLEFT", "SHRIGHT", "USHRIGHT"} -> 2
      [] ins.opcode \in {"ADD", "SUB", "MUL", "DIV", "MOD"} ->
           CASE ins.type = "kInstTypeVectorVector" -> 6
             [] ins.type \in {"kInstTypeVectorFloat", "kInstTypeFloatVector"} -> 4
             [] OTHER -> 2
      [] ins.opcode = "DESTRUCT" -> ins.args[1] \div 4
      [] ins.opcode \in {"JZ", "JNZ", "RESTOREBP"} -> 1
      [] ins.opcode = "ACTION" ->
           EntriesOf(Functions[ins.args[1] + 1].params, ins.args[2])
      [] OTHER -> 0

StackUnderrunRaised ==
    /\ pc' = "error"
    /\ err'.msg \in {"analyzeStackEq(): Stack underrun",
                     "analyzeStackBool(): Stack underrun",
                     "analyzeStackShift(): Stack underrun",
                     "analyzeStackArithm(): Stack underrun",
                     "analyzeStackJump(): Stack underrun",
                     "analyzeStackRESTOREBP(): Stack underrun",
                     "analyzeStackACTION(): Stack underrun"}

C19_StackUnderrun ==
    [][pc = "instr" => \A ins \in Fetch :
          (/\ code' = Recorded(ins)
           /\ ~MalformedOperand(ins)
           /\ EntriesNeeded(ins) > Len(ctx.stack))
          => StackUnderrunRaised]_vars

----------------------------------------------------------------------------
(* C20: type mismatch.  The Bool and shift opcodes, unary and binary       *)
(* arithmetic, JZ/JNZ and ACTION, run on a stack that holds the operands   *)
(* they consume, raise a type-mismatch error exactly when one of those     *)
(* operands has a concrete type other than the required one.  Otherwise    *)
(* every operand has the required type when it is popped (an Any operand   *)
(* was refined to it) and the results pushed have the prescribed types:    *)
(* Int for Bool and shift, the operand type for unary and same-type binary *)
(* arithmetic, Float for mixed Int/Float arithmetic, three Floats for the  *)
(* Vector forms, the function's return type for ACTION.                    *)

Floats(n) == [k \in 1..n |-> "Float"]

TypeNamed(type) ==
    CASE type \in {"kInstTypeInt", "kInstTypeIntInt"}       -> "Int"
      [] type \in {"kInstTypeFloat", "kInstTypeFloatFloat"} -> "Float"

RECURSIVE ParameterOperands(_, _, _)
ParameterOperands(types, i, paramCount) ==
    IF i > paramCount THEN <<>>
    ELSE (CASE types[i] = "Vector"      -> Floats(3)
            [] types[i] = "ScriptState" -> <<>>
            [] OTHER                    -> <<types[i]>>)
         \o ParameterOperands(types, i + 1, paramCount)

\* the types an instruction requires of the entries it consumes, top first
RequiredOperands(ins) ==
    CASE ins.opcode \in {"LOGAND", "LOGOR", "INCOR", "EXCOR", "BOOLAND",
                         "SHLEFT", "SHRIGHT", "USHRIGHT"} -> <<"Int", "Int">>
      [] ins.opcode \in {"NEG", "COMP", "NOT"} -> <<TypeNamed(ins.type)>>
      [] ins.opcode \in {"JZ", "JNZ"} -> <<"Int">>
      [] ins.opcode \in {"ADD", "SUB", "MUL", "DIV", "MOD"} ->
           CASE ins.type \in {"kInstTypeIntInt", "kInstTypeFloatFloat"} ->
                  <<TypeNamed(ins.type), TypeNamed(ins.type)>>
             [] ins.type = "kInstTypeIntFloat"     -> <<"Float", "Int">>
             [] ins.type = "kInstTypeFloatInt"     -> <<"Int", "Float">>
             [] ins.type = "kInstTypeVectorVector" -> Floats(6)
             [] OTHER                              -> Floats(4)
      [] ins.opcode = "ACTION" ->
           ParameterOperands(Functions[ins.args[1] + 1].params, 1, ins.args[2])

\* the types of the results an instruction pushes
PrescribedResults(ins) ==
    CASE ins.opcode \in {"LOGAND", "LOGOR", "INCOR", "EXCOR", "BOOLAND",
                         "SHLEFT", "SHRIGHT", "USHRIGHT"} -> <<"Int">>
      [] ins.opcode \in {"NEG", "COMP", "NOT"} -> <<TypeNamed(ins.type)>>
      [] ins.opcode \in {"JZ", "JNZ"} -> <<>>
      [] ins.opcode \in {"ADD", "SUB", "MUL", "DIV", "MOD"} ->
           CASE ins.type \in {"kInstTypeIntInt", "kInstTypeFloatFloat"} ->
                  <<TypeNamed(ins.type)>>
             [] ins.type \in {"kInstTypeIntFloat", "kInstTypeFloatInt"} -> <<"Float">>
             [] OTHER -> Floats(3)
      [] ins.opcode = "ACTION" -> ReturnedTypes(Functions[ins.args[1] + 1].return)

TypedOperator(ins) ==
    \/ ins.opcode \in {"LOGAND", "LOGOR", "INCOR", "EXCOR", "BOOLAND",
                       "SHLEFT", "SHRIGHT", "USHRIGHT", "JZ", "JNZ"}
    \/ /\ ins.opcode \in {"NEG", "COMP", "NOT"}
       /\ ins.type \in {"kInstTypeInt", "kInstTypeFloat"}
    \/ /\ ins.opcode \in {"ADD", "SUB", "MUL", "DIV", "MOD"}
       /\ ins.type \in {"kInstTypeIntInt", "kInstTypeFloatFloat",
                        "kInstTypeIntFloat", "kInstTypeFloatInt",
                        "kInstTypeVectorVector", "kInstTypeVectorFloat",
                        "kInstTypeFloatVector"}
    \/ /\ ins.opcode = "ACTION"
       /\ ins.args[1] \in 0..(Len(Functions) - 1)
       /\ ins.args[2] \in 0..Len(Functions[ins.args[1] + 1].params)

TypeMismatchRaised ==
    /\ pc' = "error"
    /\ err'.msg \in {"analyzeStackBool(): Invalid types",
                     "analyzeStackShift(): Invalid types",
                     "analyzeStackUnArithm(): Invalid types",
                     "analyzeStackBinArithm(): Invalid types",
                     "analyzeStackCond(): Invalid types",
                     "analyzeStackACTION(): Parameter type mismatch"}

OperandsTyped(ins) ==
    LET required == RequiredOperands(ins)
        results  == PrescribedResults(ins)
        mismatch == \E k \in DOMAIN required :
                        variables[ctx.stack[k] + 1].type \notin {"Any", required[k]}
    IN  /\ TypeMismatchRaised <=> mismatch
        /\ ~mismatch =>
             /\ pc' = "instr"
             /\ \A k \in DOMAIN required :
                  variables'[ctx.stack[k] + 1].type = required[k]
             /\ Len(ctx'.stack) = Len(ctx.stack) - Len(required) + Len(results)
             /\ \A j \in DOMAIN results :
                  /\ ctx'.stack[j] >= Len(variables)
                  /\ variables'[ctx'.stack[j] + 1].type = results[j]
             /\ \A j \in 1..(Len(ctx.stack) - Len(required)) :
                  ctx'.stack[Len(results) + j] = ctx.stack[Len(required) + j]

C20_TypeMismatch ==
    [][pc = "instr" => \A ins \in Fetch :
          (/\ code' = Recorded(ins)
           /\ TypedOperator(ins)
           /\ Len(RequiredOperands(ins)) <= Len(ctx.stack))
          => OperandsTyped(ins)]_vars

\* an Int and a Float have been added to a Float
C20_Witness ==
    /\ pc = "instr" /\ ctx.instruction = 4
    /\ Program(1) = <<RSADDInt, RSADDFloat, OpT("ADD", "kInstTypeIntFloat")>>
    /\ Len(ctx.stack) = kDummyStackFrameSize + 1
    /\ variables[Head(ctx.stack) + 1].type = "Float"

----------------------------------------------------------------------------
(* C21: branch isolation.  Every successor block the block walker walks    *)
(* starts with the stack (the sequence of variable references) and the     *)
(* subStack the parent block had after its last instruction, whatever the  *)
(* successors walked before it pushed or popped, and walking successors    *)
(* leaves the parent's own stack as it was.  Step by step: the end of the  *)
(* parent's instruction loop, skipping an edge, entering a successor and   *)
(* starting its instruction loop keep stack and subStack; coming back from *)
(* a successor restores the values saved when it was entered; and a saved  *)
(* context is never altered while the successor is walked.                 *)

SameStack(c, d) == c.stack = d.stack /\ c.subStack = d.subStack

\* the saved contexts further down the C++ call stack stay as they are
CallersKept ==
    \/ frames' = frames
    \/ frames # <<>> /\ frames' = Tail(frames)
    \/ frames' # <<>> /\ Tail(frames') = frames

SuccessorEntered ==
    (pc = "children" /\ pc' = "block")
        => /\ SameStack(ctx', ctx)
           /\ Head(frames').kind = "block"
           /\ SameStack(Head(frames').old, ctx)

SuccessorLeft ==
    (pc = "return" /\ frames # <<>> /\ Head(frames).kind = "block")
        => pc' = "children" /\ SameStack(ctx', Head(frames).old)

C21_BranchIsolation ==
    [][/\ CallersKept
       /\ (pc = "instr" /\ pc' = "children") => SameStack(ctx', ctx)
       /\ (pc = "children" /\ pc' \in {"children", "return"}) => SameStack(ctx', ctx)
       /\ SuccessorEntered
       /\ (pc = "block" /\ pc' = "instr") => SameStack(ctx', ctx)
       /\ SuccessorLeft]_vars

\* the second successor starts on the 32 entries its parent ended with, after
\* the first successor called a subroutine that removed one of them
C21_Witness ==
    /\ pc = "instr" /\ ctx.block = 3 /\ ctx.instruction = 1
    /\ frames # <<>> /\ Head(frames).kind = "block" /\ Head(frames).i = 2
    /\ Program(1) = <<>>
    /\ Program(2) = <<JSR(2)>>
    /\ Program(4) = <<OpA("MOVSP", <<-4>>), Op("RETN")>>
    /\ Len(ctx.stack) = kDummyStackFrameSize

----------------------------------------------------------------------------
(* C22: reconciliation.  A JSR into a Finished subroutine pops exactly     *)
(* |params| entries from the caller's stack, making the type of the i-th   *)
(* popped entry congruent with params[i], and then makes each returns[i]   *)
(* congruent with stack[|returns| - 1 - i] without popping.  It allocates  *)
(* no variable, adds no reader and no writer to any variable, changes no   *)
(* block or subroutine state and does not run the fixup pass (pending      *)
(* duplicate lists stay).  The caller's stack is taken to hold the entries *)
(* the reconciliation touches.                                             *)

\* the pairs a reconciliation of subroutine s visits on this stack, in order
ReconciledPairs(s, stack) ==
    LET n    == Len(params[s])
        r    == Len(returns[s])
        rest == SubSeq(stack, n + 1, Len(stack))
    IN  [i \in 1..n |-> <<params[s][i], stack[i]>>]
        \o [i \in 1..r |-> <<returns[s][i], rest[r + 1 - i]>>]

\* the types after the pairs were made congruent one after the other: the
\* first variable's type wins unless it is Any; a null reference is skipped
RECURSIVE Congruent(_, _)
Congruent(types, pairs) ==
    IF pairs = <<>> THEN types
    ELSE IF Head(pairs)[1] = NoVariable THEN Congruent(types, Tail(pairs))
    ELSE LET a == Head(pairs)[1] + 1
             b == Head(pairs)[2] + 1
             t == IF types[a] = "Any" THEN types[b] ELSE types[a]
         IN  Congruent([types EXCEPT ![a] = t, ![b] = t], Tail(pairs))

Reconciles(ins) ==
    /\ ins.opcode = "JSR"
    /\ ctx.mode = "SubRoutine"
    /\ subState[SubOf(ins.branch)] = "Finished"
    /\ Len(params[SubOf(ins.branch)]) + Len(returns[SubOf(ins.branch)])
           <= Len(ctx.stack)

OnlyReconciled(ins) ==
    LET s == SubOf(ins.branch)
        n == Len(params[s])
    IN  /\ pc' = "instr"
        /\ ctx'.stack = SubSeq(ctx.stack, n + 1, Len(ctx.stack))
        /\ ctx'.subStack = ctx.subStack - n
        /\ ctx'.sub = ctx.sub /\ ctx'.block = ctx.block
        /\ ctx'.subRETN = ctx.subRETN /\ ctx'.returnStack = ctx.returnStack
        /\ Len(variables') = Len(variables)
        /\ [i \in DOMAIN variables |-> variables'[i].type]
             = Congruent([i \in DOMAIN variables |-> variables[i].type],
                         ReconciledPairs(s, ctx.stack))
        /\ \A i \in DOMAIN variables :
             variables'[i] = [variables[i] EXCEPT !.type = variables'[i].type]
        /\ UNCHANGED <<subState, blockState, params, returns, globals, walks>>

C22_Reconciliation ==
    [][pc = "instr" => \A ins \in Fetch :
          (code' = Recorded(ins) /\ Reconciles(ins)) => OnlyReconciled(ins)]_vars

\* a Finished callee with one Int parameter was called again with an untyped
\* duplicate on top: the duplicate is Int now and gone from the stack, and the
\* duplicate lists the CPTOPSP left are still pending
C22_Witness ==
    /\ pc = "instr" /\ ctx.block = 1 /\ ctx.instruction = 5
    /\ Program(1) = <<RSADDInt, JSR(2), OpA("CPTOPSP", <<-4, 4>>), JSR(2)>>
    /\ Program(4) = <<OpA("MOVSP", <<-4>>), Op("RETN")>>
    /\ params[2] = <<kDummyStackFrameSize>>
    /\ Len(ctx.stack) = kDummyStackFrameSize
    /\ variables[kDummyStackFrameSize + 2].type = "Int"
    /\ variables[kDummyStackFrameSize + 2].readers = <<>>
    /\ variables[kDummyStackFrameSize + 2].duplicates # <<>>

----------------------------------------------------------------------------
(* C23: full analysis and reconciliation leave the caller in the same      *)
(* shape.  After a JSR in subroutine mode the caller's stack is its stack  *)
(* before the call without the callee's |params| parameter entries, and    *)
(* its subStack is the value before the call minus |params|, both when the *)
(* callee was analyzed in full (the caller's stack overwritten with        *)
(* returnStack) and when it was only reconciled.                           *)

\* the caller's context before the call, and what the call must leave of it
ParametersRemoved(before, s, after) ==
    LET n == Len(params'[s])
    IN  /\ after.stack = SubSeq(before.stack, n + 1, Len(before.stack))
        /\ after.subStack = before.subStack - n

\* the callee was walked and the walk has come back to the JSR
AnalyzedInFull ==
    (pc = "return" /\ frames # <<>> /\ Head(frames).kind = "jsr")
        => (pc' = "instr"
              => ParametersRemoved(Head(frames).jsr, Head(frames).old.sub, ctx'))

\* the callee was Finished already
Reconciled ==
    pc = "instr" => \A ins \in Fetch :
        (/\ code' = Recorded(ins)
         /\ ins.opcode = "JSR" /\ ctx.mode = "SubRoutine"
         /\ subState[SubOf(ins.branch)] = "Finished"
         /\ pc' = "instr")
        => ParametersRemoved(ctx, SubOf(ins.branch), ctx')

C23_CallLeavesSameShape == [][AnalyzedInFull /\ Reconciled]_vars

----------------------------------------------------------------------------
(* C24: within one subroutine walk the first RETN reached in depth-first   *)
(* order sets subRETN and fixes returnStack to the stack at that RETN;     *)
(* every RETN and every CPDOWNSP underrun executed afterwards in the same  *)
(* subroutine, in the same or a later-visited branch, leaves the           *)
(* subroutine's returns and returnStack unchanged; and a RETN reached      *)
(* inside a callee never sets the caller's subRETN or returnStack.         *)

\* how many subroutine walks are under way
RECURSIVE Activations(_)
Activations(fs) ==
    IF fs = <<>> THEN 0
    ELSE (IF Head(fs).kind = "block" THEN 0 ELSE 1) + Activations(Tail(fs))

FirstRETN ==
    pc = "instr" => \A ins \in Fetch :
        (code' = Recorded(ins) /\ ins.opcode = "RETN" /\ ~ctx.subRETN)
        => ctx'.subRETN /\ ctx'.returnStack = ctx.stack

\* once a RETN was seen, nothing in the same walk changes what it fixed
AfterRETN ==
    (ctx.subRETN /\ Activations(frames') = Activations(frames) /\ frames # <<>>)
        => /\ ctx'.subRETN
           /\ ctx'.returnStack = ctx.returnStack
           /\ returns'[ctx.sub] = returns[ctx.sub]

\* a call, however the callee ends, gives the caller back its own flag and
\* return stack, and no walk touches another subroutine's returns
CalleeApart ==
    /\ (pc = "instr" /\ pc' = "block")
           => (Head(frames').kind = "jsr" /\ Head(frames').jsr = ctx)
    /\ (pc = "return" /\ frames # <<>> /\ Head(frames).kind = "jsr")
           => (/\ ctx'.subRETN = Head(frames).jsr.subRETN
               /\ ctx'.returnStack = Head(frames).jsr.returnStack)
    /\ (pc = "instr" /\ pc' = "instr" /\ ~ctx.subRETN /\ ctx'.subRETN)
           => ctx'.returnStack = ctx.stack
    /\ (frames # <<>>) => (\A s \in Subs \ {ctx.sub} : returns'[s] = returns[s])

C24_FirstRETNFixesReturn ==
    [][FirstRETN /\ AfterRETN /\ CalleeApart /\ CallersKept]_vars

\* the first successor returned on 32 entries; the second one popped an entry,
\* copied down below its frame and returned again
C24_Witness ==
    /\ pc = "instr" /\ ctx.block = 3 /\ ctx.instruction = 4
    /\ Program(2) = <<Op("RETN")>>
    /\ Program(3) = <<OpA("MOVSP", <<-4>>), OpA("CPDOWNSP", <<-4, 4>>), Op("RETN")>>
    /\ ctx.subRETN
    /\ Len(ctx.returnStack) = kDummyStackFrameSize
    /\ Len(ctx.stack) = kDummyStackFrameSize - 1
    /\ returns[1] = <<>>

----------------------------------------------------------------------------
(* C25: CPTOPSP with count c <= stack_index + 1 grows the stack by c; the  *)
(* new top c entries are fresh variables whose types equal, in the same    *)
(* order, the types of the entries that were at positions                  *)
(* stack_index - c + 1 .. stack_index; every source variable gets the      *)
(* instruction as a reader; and afterwards the duplicate lists of a source *)
(* and of its copy each contain the other variable and everything the two  *)
(* lists held before.                                                      *)

Members(seq) == {seq[k] : k \in DOMAIN seq}

\* a well-formed CPTOPSP whose whole source range lies in the stack
CopiesWithinStack(ins) ==
    /\ ins.opcode = "CPTOPSP"
    /\ ins.args[1] <= -4 /\ ins.args[1] % 4 = 0
    /\ ins.args[2] >= 0 /\ ins.args[2] % 4 = 0
    /\ ((0 - ins.args[1]) \div 4) - 1 < Len(ctx.stack)
    /\ ins.args[2] \div 4 <= (0 - ins.args[1]) \div 4

CopiedToTop(ins) ==
    LET index  == ((0 - ins.args[1]) \div 4) - 1
        c      == ins.args[2] \div 4
        source == [k \in 1..c |-> ctx.stack[index - c + 1 + k]]
        copy   == [k \in 1..c |-> ctx'.stack[k]]
        here   == <<ctx.block, ctx.instruction>>
    IN  /\ pc' = "instr"
        /\ Len(ctx'.stack) = Len(ctx.stack) + c
        /\ ctx'.subStack = ctx.subStack + c
        /\ \A j \in DOMAIN ctx.stack : ctx'.stack[c + j] = ctx.stack[j]
        /\ Len(variables') = Len(variables) + c
        /\ Members(copy) = Len(variables)..(Len(variables) + c - 1)
        /\ \A k \in 1..c :
             /\ variables'[copy[k] + 1].id = copy[k]
             /\ variables'[copy[k] + 1].creator = here
             /\ variables'[copy[k] + 1].type = variables[source[k] + 1].type
             /\ variables'[source[k] + 1].type = variables[source[k] + 1].type
             /\ variables'[source[k] + 1].readers
                  = Append(variables[source[k] + 1].readers, here)
             /\ Members(variables'[source[k] + 1].duplicates)
                  = Members(variables[source[k] + 1].duplicates) \cup {copy[k]}
             /\ Members(variables'[copy[k] + 1].duplicates)
                  = Members(variables[source[k] + 1].duplicates) \cup {source[k]}

C25_CopyToTop ==
    [][pc = "instr" => \A ins \in Fetch :
          (code' = Recorded(ins) /\ CopiesWithinStack(ins)) => CopiedToTop(ins)]_vars

\* an Int and a Float on top were copied as a pair, and then the pair made of
\* the Int's copy and the Float itself: the Float's second copy has the first
\* one as a peer
C25_Witness ==
    /\ pc = "instr" /\ ctx.instruction = 5
    /\ Program(1) = <<RSADDInt, RSADDFloat, OpA("CPTOPSP", <<-8, 8>>),
                      OpA("CPTOPSP", <<-12, 8>>)>>
    /\ [k \in 1..6 |-> variables[ctx.stack[k] + 1].type]
         = <<"Int", "Float", "Float", "Int", "Float", "Int">>
    /\ Members(variables[ctx.stack[2] + 1].duplicates)
         = {ctx.stack[5], ctx.stack[3]}

----------------------------------------------------------------------------
(* C26: the fixup pass.  Going through the variables in order, the pass    *)
(* gives each variable with a non-empty duplicate list, and every peer in  *)
(* that list, the type of one peer in the list whose type is concrete (the *)
(* variable's own type when no peer is concrete, so that the types stay    *)
(* Any only when no member is concrete), and then empties the variable's   *)
(* duplicate list.  As stated, the peer is the first concrete one in the   *)
(* list; in the code it is the last.                                       *)

\* the type the variable at index i and its peers are given
CliqueType(vs, i, first) ==
    LET ds       == vs[i].duplicates
        concrete == {k \in DOMAIN ds : vs[ds[k] + 1].type # "Any"}
        pick     == IF first
                      THEN CHOOSE k \in concrete : \A j \in concrete : k <= j
                      ELSE CHOOSE k \in concrete : \A j \in concrete : k >= j
    IN  IF concrete = {} THEN vs[i].type ELSE vs[ds[pick] + 1].type

Collapsed(vs, i, first) ==
    IF vs[i].duplicates = <<>> THEN vs
    ELSE [j \in DOMAIN vs |->
            IF j = i
              THEN [vs[j] EXCEPT !.type = CliqueType(vs, i, first),
                                 !.duplicates = <<>>]
            ELSE IF j - 1 \in Members(vs[i].duplicates)
              THEN [vs[j] EXCEPT !.type = CliqueType(vs, i, first)]
            ELSE vs[j]]

RECURSIVE CollapsedFrom(_, _, _)
CollapsedFrom(vs, i, first) ==
    IF i > Len(vs) THEN vs
    ELSE CollapsedFrom(Collapsed(vs, i, first), i + 1, first)

\* a subroutine walk is over and the pass is about to run
WalkEnds == pc = "return" /\ frames # <<>> /\ Head(frames).kind # "block"

C26_FixupFirstConcrete ==
    [][WalkEnds => variables' = CollapsedFrom(variables, 1, TRUE)]_vars

C26_FixupLastConcrete ==
    [][WalkEnds => variables' = CollapsedFrom(variables, 1, FALSE)]_vars

\* the top of the dummy frame was copied twice, the first copy refined to Int
\* and the second to Float: all three are Float after the pass
C26_Witness ==
    /\ pc = "idle" /\ calls = 1
    /\ Program(1) = <<OpA("CPTOPSP", <<-4, 4>>), OpT("NEG", "kInstTypeInt"),
                      OpA("MOVSP", <<-4>>), OpA("CPTOPSP", <<-4, 4>>),
                      OpT("NEG", "kInstTypeFloat")>>
    /\ variables[kDummyStackFrameSize].type = "Float"
    /\ variables[kDummyStackFrameSize + 1].type = "Float"
    /\ variables[kDummyStackFrameSize + 3].type = "Float"
    /\ \A i \in DOMAIN variables : variables[i].duplicates = <<>>

----------------------------------------------------------------------------
(* C27: index bounds.  For CPTOPSP, CPDOWNSP and DECSP/INCSP against the   *)
(* operand stack, and for CPTOPBP, CPDOWNBP and DECBP/INCBP against the    *)
(* globals stack, a decoded stack_index = (offset / -4) - 1 that is        *)
(* greater than or equal to the size of the addressed stack raises an      *)
(* underrun error, and no handler reads or writes an entry at an index     *)
(* greater than or equal to that stack's size.                             *)

OnOperandStack(ins) == ins.opcode \in {"CPTOPSP", "CPDOWNSP", "DECSP", "INCSP"}
OnGlobalsStack(ins) == ins.opcode \in {"CPTOPBP", "CPDOWNBP", "DECBP", "INCBP"}

\* an indexing instruction with well-formed operands and a stack to address
Indexes(ins) ==
    /\ OnOperandStack(ins) \/ (OnGlobalsStack(ins) /\ ctx.hasGlobals)
    /\ ~MalformedOperand(ins)

DecodedIndex(ins) == ((0 - ins.args[1]) \div 4) - 1

AddressedSize(ins) ==
    IF OnOperandStack(ins) THEN Len(ctx.stack) ELSE Len(globals)

IndexUnderrunRaised ==
    /\ pc' = "error"
    /\ err'.msg \in {"analyzeStackCPTOPSP(): Stack underrun",
                     "analyzeStackCPDOWNSP(): Stack underrun",
                     "analyzeStackModifySP(): Stack underrun",
                     "analyzeStackCPTOPBP(): Globals underrun",
                     "analyzeStackCPDOWNBP(): Globals underrun",
                     "analyzeStackModifyBP(): Globals underrun"}

\* the handler has left defined behaviour: an access past the end
AccessPastEnd == pc' = "ub"

C27_IndexBounds ==
    [][pc = "instr" => \A ins \in Fetch :
          (code' = Recorded(ins) /\ Indexes(ins))
          => /\ DecodedIndex(ins) >= AddressedSize(ins) => IndexUnderrunRaised
             /\ ~AccessPastEnd]_vars

----------------------------------------------------------------------------
(* C28: DECBP/INCBP behave like DECSP/INCSP on the globals stack: the      *)
(* global at stack_index must be Int-compatible (Any or Int) or a type     *)
(* error is raised; it is refined to Int; the instruction is recorded as   *)
(* both reader and writer of it; and neither the depth of the globals      *)
(* stack nor the operand stack changes.                                    *)

\* a well-formed DECBP/INCBP that addresses an existing global
ModifiesGlobal(ins) ==
    /\ ins.opcode \in {"DECBP", "INCBP"}
    /\ ctx.hasGlobals
    /\ ~MalformedOperand(ins)
    /\ DecodedIndex(ins) < Len(globals)

GlobalModified(ins) ==
    LET global == globals[DecodedIndex(ins) + 1] + 1
        here   == <<ctx.block, ctx.instruction>>
    IN  IF variables[global].type \notin {"Any", "Int"}
          THEN pc' = "error" /\ err'.msg = "analyzeStackModifyBP(): Invalid types"
          ELSE /\ pc' = "instr"
               /\ variables'[global].type = "Int"
               /\ variables'[global].readers = Append(variables[global].readers, here)
               /\ variables'[global].writers = Append(variables[global].writers, here)
               /\ globals' = globals
               /\ SameStack(ctx', ctx)

C28_ModifyGlobal ==
    [][pc = "instr" => \A ins \in Fetch :
          (code' = Recorded(ins) /\ ModifiesGlobal(ins)) => GlobalModified(ins)]_vars

----------------------------------------------------------------------------
(* C29: after the analysis a subroutine's params list contains each        *)
(* variable reference at most once, and its length is the number of        *)
(* caller-owned slots the subroutine removes along a single path from its  *)
(* entry to RETN, also when the subroutine has several exit paths in       *)
(* distinct blocks that each clear the parameters with their own MOVSP.    *)
(* The subroutine looked at is the one the driver started on: its caller's *)
(* slots are the dummy frame, and what it left of them is the return stack *)
(* the driver's context ends with.                                         *)

NoParameterTwice(s) ==
    \A i, j \in DOMAIN params[s] : params[s][i] = params[s][j] => i = j

\* the entries of the dummy frame that are gone from the stack at the RETN
SlotsRemoved(stack) ==
    Cardinality({v \in 0..(kDummyStackFrameSize - 1) : v \notin Members(stack)})

\* the driver's first call has returned and the walk met a RETN
AnalysisReturned ==
    /\ pc = "idle" /\ calls = 1
    /\ subState[ctx.sub] = "Finished"
    /\ ctx.stack # <<>>

C29_ParametersOnce ==
    AnalysisReturned
        => /\ NoParameterTwice(ctx.sub)
           /\ Len(params[ctx.sub]) = SlotsRemoved(ctx.stack)

----------------------------------------------------------------------------
(* C30: subStack, an unsigned machine integer, never wraps below zero and  *)
(* never exceeds the depth of the active stack: in every reachable state   *)
(* of an analysis that does not abort, 0 <= subStack <= |stack|, for every *)
(* handler that pops (JZ/JNZ, EQ, ACTION and DESTRUCT on an empty own      *)
(* frame included) and after every JSR return.  A negative value of the    *)
(* model's subStack stands for the wrapped counter.                        *)

\* a top-level analysis is under way and has neither thrown nor left
\* defined behaviour
Analysing == frames # <<>> /\ pc \notin {"error", "ub"}

C30_SubStackWithinStack ==
    Analysing => (0 <= ctx.subStack /\ ctx.subStack <= Len(ctx.stack))

----------------------------------------------------------------------------
(* C31: return-slot consistency.  When a Finished subroutine with two or   *)
(* more recorded returns is called again, each returns[i] is made          *)
(* congruent with the caller's stack slot that lies as far below the       *)
(* parameters as the slot returns[i] was recorded from during the full     *)
(* analysis: CPDOWNSP records the slot at distance u - 1 below the         *)
(* callee's own frame as returns[u - 1] and the first RETN drops the       *)
(* leading |params| entries, so returns[i] (counted from 0) stands for the *)
(* slot i entries below the parameters.                                    *)

\* the pairs of a reconciliation that meets every return at the distance it
\* was recorded from
SameDistancePairs(s, stack) ==
    LET n    == Len(params[s])
        r    == Len(returns[s])
        rest == SubSeq(stack, n + 1, Len(stack))
    IN  [i \in 1..n |-> <<params[s][i], stack[i]>>]
        \o [i \in 1..r |-> <<returns[s][i], rest[i]>>]

SeveralReturns(ins) == Len(returns[SubOf(ins.branch)]) >= 2

ReturnsAtRecordedDistance(ins) ==
    [i \in DOMAIN variables |-> variables'[i].type]
        = Congruent([i \in DOMAIN variables |-> variables[i].type],
                    SameDistancePairs(SubOf(ins.branch), ctx.stack))

C31_ReturnSlotConsistency ==
    [][pc = "instr" => \A ins \in Fetch :
          (code' = Recorded(ins) /\ Reconciles(ins) /\ SeveralReturns(ins))
              => ReturnsAtRecordedDistance(ins)]_vars

----------------------------------------------------------------------------
(* C32: the analysis state is monotonic.  The stackAnalyzeState of every   *)
(* block and of every subroutine only moves Unvisited -> InProgress ->     *)
(* Finished (None, Start, Finished in the source), one stage at a time and *)
(* never backwards, and when a top-level analysis returns normally no      *)
(* block and no subroutine is left InProgress.                             *)

StateRank(state) ==
    CASE state = "None"     -> 0
      [] state = "Start"    -> 1
      [] state = "Finished" -> 2

\* the state stays or moves on to the next stage
Advances(old, new) ==
    StateRank(new) = StateRank(old) \/ StateRank(new) = StateRank(old) + 1

StatesAdvance ==
    /\ \A b \in Blocks : Advances(blockState[b], blockState'[b])
    /\ \A s \in Subs : Advances(subState[s], subState'[s])

\* a driver call comes back without an exception
ReturnsNormally == pc # "idle" /\ pc' = "idle"

NoneLeftInProgress ==
    /\ \A b \in Blocks : blockState'[b] # "Start"
    /\ \A s \in Subs : subState'[s] # "Start"

C32_MonotonicAnalysisState ==
    [][StatesAdvance /\ (ReturnsNormally => NoneLeftInProgress)]_vars

\* the analysis of main came back after it walked three blocks of main, two
\* of them as successors, and a callee: all of them are Finished
C32_Witness ==
    /\ pc = "idle" /\ calls = 1
    /\ subState[1] = "Finished" /\ subState[2] = "Finished"
    /\ \A b \in {1, 2, 3, 4} : blockState[b] = "Finished"
    /\ children[1] # <<>>

----------------------------------------------------------------------------
(* C33: after the driver sequence (analyzeGlobals on the initializer       *)
(* subroutine, then analyzeSubRoutineStack on the entry subroutine) has    *)
(* completed normally, every subroutine that the entry subroutine reaches  *)
(* through chains of JSR instructions is Finished and its blocks were      *)
(* analyzed, the subroutines that are reached only through the initializer *)
(* subroutine included.                                                    *)

\* subroutine s holds a JSR to subroutine t
CallsSubRoutine(s, t) ==
    \E b \in Blocks :
        /\ SubOf(b) = s
        /\ \E i \in DOMAIN code[b] :
               code[b][i].opcode = "JSR" /\ code[b][i].branch = EntryOf(t)

\* the subroutines reached from those of set S by at most n further calls
RECURSIVE CalledWithin(_, _)
CalledWithin(S, n) ==
    IF n = 0 THEN S
    ELSE CalledWithin(S \cup {t \in Subs : \E s \in S : CallsSubRoutine(s, t)},
                      n - 1)

ReachableByCalls(s) == CalledWithin({s}, Cardinality(Subs))

\* both calls of the driver have returned
DriverCompleted == pc = "idle" /\ calls = 2

SubRoutineAnalyzed(s) ==
    /\ subState[s] = "Finished"
    /\ blockState[EntryOf(s)] = "Finished"
    /\ walks[EntryOf(s)] >= 1

C33_DriverAnalyzesReachable ==
    DriverCompleted => \A s \in ReachableByCalls(1) : SubRoutineAnalyzed(s)

====
